---- MODULE Spec2Model ----
(***************************************************************************)
(* Model of pathlib_ (irvingleonard/pathlib_alt): the path decomposition   *)
(* parsers of PurePosixPath and PureWindowsPath, the segment validator,    *)
(* the construction of path values and their derived attributes, joinpath  *)
(* and the / operator, with_name and the methods built on it, parent and   *)
(* parents.                                                                *)
(*                                                                         *)
(* A Python str is modelled as a sequence of one-character strings, so     *)
(* that slicing, split, join, replace and lstrip are computed as Python    *)
(* computes them.  A Python list of str is a sequence of such sequences.   *)
(***************************************************************************)
EXTENDS Integers, Sequences, FiniteSets, TLC

(***************************************************************************)
(* Bounds of the model.                                                    *)
(***************************************************************************)
\* longest free text appended to a seed to make an input path string
MaxBody == 2
\* longest tail given to the drive/root/tail form of the constructor
MaxTail == 2
\* how many times more than its tail is long .parent is applied to a path
MaxBeyond == 2
\* the largest index, from either end, the list parents is read at
MaxIndex == 3
\* how many derived attributes each thread reads of the instance it shares
MaxAccesses == 1
\* the longest pattern translated
MaxPattern == 3
\* the longest string a translated pattern is matched against
MaxString == 3

(***************************************************************************)
(* Characters.                                                             *)
(***************************************************************************)
SLASH == "/"
BACKSLASH == "\\"
DOT == "."
QMARK == "?"
COLON == ":"
SPACE == " "

\* the characters free text is made of
Alphabet == {SLASH, BACKSLASH, "a", DOT, QMARK, SPACE}

(***************************************************************************)
(* Class attributes.                                                       *)
(***************************************************************************)
\* pathlib_.posix.PurePosixPath
PurePosixPath == "posix.PurePosixPath"
\* pathlib_.PurePosixPath, the class of the same name the package itself defines
PackagePurePosixPath == "pathlib_.PurePosixPath"
\* pathlib_.windows.PureWindowsPath (pathlib_.PureWindowsPath is a verbatim copy)
PureWindowsPath == "PureWindowsPath"
Classes == {PurePosixPath, PackagePurePosixPath, PureWindowsPath}
PosixClasses == {PurePosixPath, PackagePurePosixPath}

SEPARATOR(cls) == IF cls = PureWindowsPath THEN BACKSLASH ELSE SLASH
SUFFIX_SEPARATOR == DOT
\* the value the class statement gives INVALID_PATH_CHARS
INVALID_PATH_CHARS_Init(cls) ==
    IF cls = PureWindowsPath
    THEN {"<", ">", COLON, "\"", SLASH, "|", QMARK, "*"}
    ELSE {}

(***************************************************************************)
(* Python str and list primitives.                                         *)
(***************************************************************************)
Min(a, b) == IF a < b THEN a ELSE b

\* s[i:j], 0-based, for 0 <= i and 0 <= j
Slice(s, i, j) == SubSeq(s, i + 1, Min(j, Len(s)))
\* s[i:]
SliceFrom(s, i) == SubSeq(s, i + 1, Len(s))
\* s[:-n] for n > 0
DropLast(s, n) == SubSeq(s, 1, Len(s) - n)

\* s[-1:]
LastChar(s) == IF s = <<>> THEN <<>> ELSE <<s[Len(s)]>>

\* the set of characters of s: frozenset(s)
CharsOf(s) == {s[i] : i \in 1..Len(s)}

\* s.replace(old, new) for one-character old and new
replace(s, old, new) == [i \in 1..Len(s) |-> IF s[i] = old THEN new ELSE s[i]]

RECURSIVE split(_, _)
\* s.split(sep) for a one-character sep: never an empty list
split(s, sep) ==
    IF \A i \in 1..Len(s) : s[i] # sep
    THEN <<s>>
    ELSE LET i == CHOOSE k \in 1..Len(s) :
                      s[k] = sep /\ \A j \in 1..(k - 1) : s[j] # sep
         IN <<SubSeq(s, 1, i - 1)>> \o split(SubSeq(s, i + 1, Len(s)), sep)

RECURSIVE join(_, _)
\* sep.join(parts) for a one-character sep
join(sep, parts) ==
    IF parts = <<>> THEN <<>>
    ELSE IF Len(parts) = 1 THEN parts[1]
    ELSE parts[1] \o <<sep>> \o join(sep, Tail(parts))

RECURSIVE concat(_)
\* ''.join(parts)
concat(parts) ==
    IF parts = <<>> THEN <<>> ELSE parts[1] \o concat(Tail(parts))

RECURSIVE lstrip(_, _)
\* s.lstrip(c) for a one-character c
lstrip(s, c) ==
    IF s # <<>> /\ s[1] = c THEN lstrip(Tail(s), c) ELSE s

\* s.endswith(c) for a one-character c
endswith(s, c) == s # <<>> /\ s[Len(s)] = c

\* [x for x in parts if x]
NonEmpty(parts) == SelectSeq(parts, LAMBDA x : x # <<>>)

(***************************************************************************)
(* PurePosixPath._parse_path                                               *)
(***************************************************************************)
Parsed(d, r, t) == [exc |-> "None", drive |-> d, root |-> r, tail |-> t]
Raised(e) == [exc |-> e, drive |-> <<>>, root |-> <<>>, tail |-> <<>>]

\* variant: the tail keeps only the non-empty segments
PurePosixPath_parse_path_collapsing(path) ==
    IF path # <<>>
    THEN LET double == path[1] = SLASH /\ Slice(path, 1, 2) = <<SLASH>>
                       /\ Slice(path, 2, 3) # <<SLASH>>
             root == IF path[1] = SLASH
                     THEN (IF double THEN <<SLASH, SLASH>> ELSE <<SLASH>>)
                     ELSE <<>>
             tail == IF path[1] = SLASH
                     THEN (IF double THEN SliceFrom(path, 2) ELSE SliceFrom(path, 1))
                     ELSE path
         IN Parsed(<<>>, root,
                   IF tail # <<>> THEN NonEmpty(split(tail, SLASH)) ELSE <<>>)
    ELSE Parsed(<<>>, <<>>, <<>>)

\* variant: two leading separators give the double root whatever follows
PurePosixPath_parse_path_no_third(path) ==
    IF path # <<>>
    THEN LET double == path[1] = SLASH /\ Slice(path, 1, 2) = <<SLASH>>
             root == IF path[1] = SLASH
                     THEN (IF double THEN <<SLASH, SLASH>> ELSE <<SLASH>>)
                     ELSE <<>>
             tail == IF path[1] = SLASH
                     THEN (IF double THEN SliceFrom(path, 2) ELSE SliceFrom(path, 1))
                     ELSE path
         IN Parsed(<<>>, root, IF tail # <<>> THEN split(tail, SLASH) ELSE <<>>)
    ELSE Parsed(<<>>, <<>>, <<>>)

PurePosixPath_parse_path(path) ==
    IF path # <<>>
    THEN LET double == path[1] = SLASH /\ Slice(path, 1, 2) = <<SLASH>>
                       /\ Slice(path, 2, 3) # <<SLASH>>
             root == IF path[1] = SLASH
                     THEN (IF double THEN <<SLASH, SLASH>> ELSE <<SLASH>>)
                     ELSE <<>>
             tail == IF path[1] = SLASH
                     THEN (IF double THEN SliceFrom(path, 2) ELSE SliceFrom(path, 1))
                     ELSE path
         IN Parsed(<<>>, root, IF tail # <<>> THEN split(tail, SLASH) ELSE <<>>)
    ELSE Parsed(<<>>, <<>>, <<>>)

\* PurePosixPath._parse_path of the package's __init__: no double-slash root
PackagePurePosixPath_parse_path(path) ==
    IF path # <<>>
    THEN LET root == IF path[1] = SLASH THEN <<SLASH>> ELSE <<>>
             tail == IF path[1] = SLASH THEN SliceFrom(path, 1) ELSE path
         IN Parsed(<<>>, root, IF tail # <<>> THEN split(tail, SLASH) ELSE <<>>)
    ELSE Parsed(<<>>, <<>>, <<>>)

(***************************************************************************)
(* PureWindowsPath._parse_path                                             *)
(***************************************************************************)
\* 'UNC' + cls.SEPARATOR, which path[4:8] is compared with
UNC_SEP == <<"U", "N", "C", BACKSLASH>>

\* path.replace('/', cls.SEPARATOR)
WindowsNormalize(path) == replace(path, SLASH, BACKSLASH)

\* which of the return statements of PureWindowsPath._parse_path the
\* (already normalized) path takes
WindowsBranch(p) ==
    IF Slice(p, 0, 1) = <<BACKSLASH>>
    THEN IF Slice(p, 1, 2) = <<BACKSLASH>>
         THEN IF Slice(p, 2, 3) \in {<<QMARK>>, <<DOT>>} /\ Slice(p, 3, 4) = <<BACKSLASH>>
              THEN IF Slice(p, 2, 3) = <<DOT>> THEN "device"
                   ELSE IF Slice(p, 4, 8) = UNC_SEP THEN "nt_unc"
                   ELSE IF Slice(p, 5, 6) = <<COLON>> /\ Slice(p, 6, 7) = <<BACKSLASH>>
                        THEN "nt_drive"
                   ELSE "winnt"
              ELSE "unc"
         ELSE "rooted"
    ELSE IF Slice(p, 1, 2) = <<COLON>>
         THEN IF Slice(p, 2, 3) = <<BACKSLASH>> THEN "drive_abs" ELSE "drive_rel"
    ELSE "relative"

\* the two UNC branches: rest is the text after the prefix (path[2:] or
\* path[8:]); the condition of the raise, the list drive and the list tail
\* variant: a tail after a lone server or share is let through
UncInvalid_no_tail_check(rest) ==
    LET late_path == split(rest, BACKSLASH)
        drive == NonEmpty(SubSeq(late_path, 1, Min(2, Len(late_path))))
    IN \/ (rest # <<>> /\ drive = <<>>)
       \/ (Slice(late_path, 1, 2) # <<>> /\ Slice(late_path, 0, 1) = <<>>)

UncInvalid(rest) ==
    LET late_path == split(rest, BACKSLASH)
        drive == NonEmpty(SubSeq(late_path, 1, Min(2, Len(late_path))))
        tail == SubSeq(late_path, 3, Len(late_path))
    IN \/ (rest # <<>> /\ drive = <<>>)
       \/ (Slice(late_path, 1, 2) # <<>> /\ Slice(late_path, 0, 1) = <<>>)
       \/ (Len(drive) < 2 /\ tail # <<>>)

UncDrive(rest) ==
    LET late_path == split(rest, BACKSLASH)
    IN NonEmpty(SubSeq(late_path, 1, Min(2, Len(late_path))))

UncTail(rest) ==
    LET late_path == split(rest, BACKSLASH)
    IN SubSeq(late_path, 3, Len(late_path))

PureWindowsPath_parse_path(path) ==
    LET p == WindowsNormalize(path)
        b == WindowsBranch(p)
    IN CASE b = "device" ->
              Parsed(Slice(p, 0, 3), <<p[4]>>, split(SliceFrom(p, 4), BACKSLASH))
         [] b = "nt_unc" ->
              IF UncInvalid(SliceFrom(p, 8))
              THEN Raised("ValueError")
              ELSE Parsed(Slice(p, 0, 8) \o join(BACKSLASH, UncDrive(SliceFrom(p, 8))),
                          IF UncTail(SliceFrom(p, 8)) # <<>> THEN <<BACKSLASH>> ELSE <<>>,
                          UncTail(SliceFrom(p, 8)))
         [] b = "nt_drive" ->
              Parsed(Slice(p, 0, 6), Slice(p, 6, 7), split(SliceFrom(p, 7), BACKSLASH))
         [] b = "winnt" ->
              Parsed(Slice(p, 0, 3), Slice(p, 3, 4), split(SliceFrom(p, 4), BACKSLASH))
         [] b = "unc" ->
              IF UncInvalid(SliceFrom(p, 2))
              THEN Raised("ValueError")
              ELSE Parsed(join(BACKSLASH, <<<<>>, <<>>>> \o UncDrive(SliceFrom(p, 2))),
                          IF UncTail(SliceFrom(p, 2)) # <<>> THEN <<BACKSLASH>> ELSE <<>>,
                          UncTail(SliceFrom(p, 2)))
         [] b = "rooted" ->
              Parsed(<<>>, Slice(p, 0, 1), split(SliceFrom(p, 1), BACKSLASH))
         [] b = "drive_abs" ->
              Parsed(Slice(p, 0, 2), Slice(p, 2, 3), split(SliceFrom(p, 3), BACKSLASH))
         [] b = "drive_rel" ->
              Parsed(Slice(p, 0, 2), <<>>, split(SliceFrom(p, 2), BACKSLASH))
         [] OTHER ->
              Parsed(<<>>, <<>>, split(p, BACKSLASH))

\* cls.INVALID_PATH_CHARS when PureWindowsPath._parse_path(path) returns,
\* given its value at the call: the WinNT namespace branch assigns it
PureWindowsPath_parse_path_assigns(invalid, path) ==
    IF WindowsBranch(WindowsNormalize(path)) = "winnt" THEN {} ELSE invalid

\* cls._parse_path(path)
parse_path(cls, path) ==
    CASE cls = PureWindowsPath -> PureWindowsPath_parse_path(path)
      [] cls = PackagePurePosixPath -> PackagePurePosixPath_parse_path(path)
      [] OTHER -> PurePosixPath_parse_path(path)

\* cls.INVALID_PATH_CHARS after cls._parse_path(path), given the attribute
\* of every class at the call
parse_path_assigns(cls, invalid, path) ==
    IF cls = PureWindowsPath
    THEN [invalid EXCEPT ![cls] = PureWindowsPath_parse_path_assigns(invalid[cls], path)]
    ELSE invalid

(***************************************************************************)
(* _validate_tail_parts                                                    *)
(***************************************************************************)
\* BasePurePath._validate_tail_parts raises ValueError
BasePurePath_validate_tail_parts_raises(cls, invalid, tail_parts) ==
    \E i \in 1..Len(tail_parts) :
        CharsOf(tail_parts[i]) \cap (invalid[cls] \cup {SEPARATOR(cls)}) # {}

\* the loop PureWindowsPath._validate_tail_parts adds raises ValueError
PureWindowsPath_validate_tail_parts_raises(tail_parts) ==
    \E i \in 1..Len(tail_parts) :
        LastChar(tail_parts[i]) \in {<<SPACE>>, <<DOT>>}

\* cls._validate_tail_parts(*tail_parts) raises ValueError
validate_tail_parts_raises(cls, invalid, tail_parts) ==
    \/ BasePurePath_validate_tail_parts_raises(cls, invalid, tail_parts)
    \/ cls = PureWindowsPath /\ PureWindowsPath_validate_tail_parts_raises(tail_parts)

(***************************************************************************)
(* Path objects: BasePurePath.__new__, __str__, __getattr__                *)
(***************************************************************************)
\* the lazily resolved attributes LOCAL_PARSING groups under _parse_name
NAME_ATTRIBUTES == {"name", "stem", "suffix", "pure_stem", "suffixes"}

\* the keys of LOCAL_PARSING: the attributes one resolver gives, in order
NAME_GROUP == <<"name", "stem", "suffix", "pure_stem", "suffixes">>
PARENTS_GROUP == <<"parent", "parents">>
DERIVED_ATTRIBUTES == NAME_ATTRIBUTES \cup {"parent", "parents"}
\* the key of LOCAL_PARSING the attribute is in
GroupOf(name) == IF name \in NAME_ATTRIBUTES THEN NAME_GROUP ELSE PARENTS_GROUP

\* the instance __new__ returns: drive, root and _tail are set, the cached
\* and lazily resolved attributes (those named in attrs) are not yet
PathObject(d, r, t) ==
    [drive |-> d, root |-> r, tail |-> t, attrs |-> {},
     str |-> <<>>, name |-> <<>>, stem |-> <<>>, suffix |-> <<>>,
     pure_stem |-> <<>>, suffixes |-> <<>>]

\* no instance at hand
NoPath == PathObject(<<>>, <<>>, <<>>)
\* no call made yet
NoRet == Raised("None")

anchor(p) == p.drive \o p.root

\* the outcome of cls(*args): _parse_path on the joined arguments, then
\* _validate_tail_parts with the class attribute as _parse_path left it
BasePurePath_new(cls, invalid, args) ==
    LET path == join(SEPARATOR(cls), args)
        parsed == parse_path(cls, path)
        after == parse_path_assigns(cls, invalid, path)
    IN IF parsed.exc # "None" THEN parsed
       ELSE IF validate_tail_parts_raises(cls, after, parsed.tail)
            THEN Raised("ValueError")
       ELSE parsed

\* the outcome of cls(drive = d, root = r, tail = t)
BasePurePath_new_parts(cls, invalid, d, r, t) ==
    IF validate_tail_parts_raises(cls, invalid, t)
    THEN Raised("ValueError")
    ELSE Parsed(d, r, t)

\* variant: the string is built from the non-empty segments, as __fspath__ does
BasePurePath_str_simplified(cls, p) ==
    LET str_value == anchor(p) \o join(SEPARATOR(cls), NonEmpty(p.tail))
    IN IF str_value # <<>> THEN str_value ELSE <<DOT>>

\* the value __str__ computes
BasePurePath_str(cls, p) ==
    LET str_value == anchor(p) \o join(SEPARATOR(cls), p.tail)
    IN IF str_value # <<>> THEN str_value ELSE <<DOT>>

\* variant: the piece before the first dot is taken for a suffix as well
BasePurePath_parse_name_all_pieces(p) ==
    LET name == IF p.tail # <<>> THEN p.tail[Len(p.tail)] ELSE <<>>
        pieces == split(lstrip(name, SUFFIX_SEPARATOR), SUFFIX_SEPARATOR)
        suffixes == IF name = <<>> \/ endswith(name, SUFFIX_SEPARATOR)
                    THEN <<>>
                    ELSE [i \in 1..Len(pieces) |-> <<SUFFIX_SEPARATOR>> \o pieces[i]]
        suffix == IF suffixes # <<>> THEN suffixes[Len(suffixes)] ELSE <<>>
        stem == IF suffix # <<>> THEN DropLast(name, Len(suffix)) ELSE name
        pure_stem == IF suffixes # <<>> THEN DropLast(name, Len(concat(suffixes))) ELSE name
    IN [name |-> name, stem |-> stem, suffix |-> suffix,
        pure_stem |-> pure_stem, suffixes |-> suffixes]

\* variant: the leading dots of the name are not stripped before the split
BasePurePath_parse_name_no_lstrip(p) ==
    LET name == IF p.tail # <<>> THEN p.tail[Len(p.tail)] ELSE <<>>
        pieces == split(name, SUFFIX_SEPARATOR)
        suffixes == IF name = <<>> \/ endswith(name, SUFFIX_SEPARATOR)
                    THEN <<>>
                    ELSE [i \in 1..(Len(pieces) - 1) |-> <<SUFFIX_SEPARATOR>> \o pieces[i + 1]]
        suffix == IF suffixes # <<>> THEN suffixes[Len(suffixes)] ELSE <<>>
        stem == IF suffix # <<>> THEN DropLast(name, Len(suffix)) ELSE name
        pure_stem == IF suffixes # <<>> THEN DropLast(name, Len(concat(suffixes))) ELSE name
    IN [name |-> name, stem |-> stem, suffix |-> suffix,
        pure_stem |-> pure_stem, suffixes |-> suffixes]

\* BasePurePath._parse_name: name, stem, suffix, pure_stem, suffixes
BasePurePath_parse_name(p) ==
    LET name == IF p.tail # <<>> THEN p.tail[Len(p.tail)] ELSE <<>>
        pieces == split(lstrip(name, SUFFIX_SEPARATOR), SUFFIX_SEPARATOR)
        suffixes == IF name = <<>> \/ endswith(name, SUFFIX_SEPARATOR)
                    THEN <<>>
                    ELSE [i \in 1..(Len(pieces) - 1) |-> <<SUFFIX_SEPARATOR>> \o pieces[i + 1]]
        suffix == IF suffixes # <<>> THEN suffixes[Len(suffixes)] ELSE <<>>
        stem == IF suffix # <<>> THEN DropLast(name, Len(suffix)) ELSE name
        pure_stem == IF suffixes # <<>> THEN DropLast(name, Len(concat(suffixes))) ELSE name
    IN [name |-> name, stem |-> stem, suffix |-> suffix,
        pure_stem |-> pure_stem, suffixes |-> suffixes]

\* the instance once __getattr__ has resolved one of the name attributes:
\* the five of them are set
ResolveName(p) ==
    IF "name" \in p.attrs
    THEN p
    ELSE LET results == BasePurePath_parse_name(p)
         IN [p EXCEPT !.attrs = @ \cup NAME_ATTRIBUTES,
                      !.name = results.name,
                      !.stem = results.stem,
                      !.suffix = results.suffix,
                      !.pure_stem = results.pure_stem,
                      !.suffixes = results.suffixes]

\* the tuple the instance is: the anchor, when there is one, then the tail
AsTuple(p) == (IF anchor(p) # <<>> THEN <<anchor(p)>> ELSE <<>>) \o p.tail

\* p == q: BasePurePath is a tuple and defines no __eq__ of its own
PathEq(p, q) == AsTuple(p) = AsTuple(q)

(***************************************************************************)
(* joinpath and the / operator                                             *)
(***************************************************************************)
\* self.joinpath(*pathsegments), JOINPATH_INSANE_BEHAVIOR being insane.
\* The loop converts its first argument and then leaves by one of the two
\* raise statements or by the call of path.anchor, a str, which raises
\* TypeError: no iteration reaches tails.extend, no second one is made.
BasePurePath_joinpath(cls, invalid, insane, p, pathsegments) ==
    IF pathsegments = <<>>
    THEN BasePurePath_new_parts(cls, invalid, p.drive, p.root, p.tail)
    ELSE LET path == BasePurePath_new(cls, invalid, <<pathsegments[1]>>)
         IN IF path.exc # "None" THEN path
            ELSE IF insane THEN Raised("NotImplementedError")
            ELSE Raised("TypeError")

\* cls.INVALID_PATH_CHARS after self.joinpath(*pathsegments): convert_path
\* parses the first argument
BasePurePath_joinpath_assigns(cls, invalid, pathsegments) ==
    IF pathsegments = <<>>
    THEN invalid
    ELSE parse_path_assigns(cls, invalid, pathsegments[1])

\* self / other: the TypeError of joinpath is turned into NotImplemented,
\* for which the interpreter, other having no __rtruediv__ to try, raises
\* TypeError; any other outcome of joinpath is the outcome
BasePurePath_truediv(cls, invalid, insane, p, other) ==
    LET joined == BasePurePath_joinpath(cls, invalid, insane, p, <<other>>)
    IN IF joined.exc = "TypeError" THEN Raised("TypeError") ELSE joined

(***************************************************************************)
(* with_name and the methods built on it                                   *)
(***************************************************************************)
\* variant: a path without a name is given one
BasePurePath_with_name_unchecked(cls, invalid, p, name) ==
    IF validate_tail_parts_raises(cls, invalid, <<name>>)
    THEN Raised("ValueError")
    ELSE BasePurePath_new_parts(cls, invalid, p.drive, p.root,
                                SubSeq(p.tail, 1, Len(p.tail) - 1) \o <<name>>)

\* variant: the name is added after the last segment
BasePurePath_with_name_appending(cls, invalid, p, name) ==
    IF BasePurePath_parse_name(p).name = <<>>
    THEN Raised("ValueError")
    ELSE IF validate_tail_parts_raises(cls, invalid, <<name>>)
         THEN Raised("ValueError")
    ELSE BasePurePath_new_parts(cls, invalid, p.drive, p.root, p.tail \o <<name>>)

\* self.with_name(name)
BasePurePath_with_name(cls, invalid, p, name) ==
    IF BasePurePath_parse_name(p).name = <<>>
    THEN Raised("ValueError")
    ELSE IF validate_tail_parts_raises(cls, invalid, <<name>>)
         THEN Raised("ValueError")
    ELSE BasePurePath_new_parts(cls, invalid, p.drive, p.root,
                                SubSeq(p.tail, 1, Len(p.tail) - 1) \o <<name>>)

\* self.with_pure_stem(pure_stem)
BasePurePath_with_pure_stem(cls, invalid, p, pure_stem) ==
    IF pure_stem = <<>> \/ pure_stem[Len(pure_stem)] = SUFFIX_SEPARATOR
    THEN Raised("ValueError")
    ELSE IF SUFFIX_SEPARATOR \in CharsOf(lstrip(pure_stem, SUFFIX_SEPARATOR))
         THEN Raised("ValueError")
    ELSE BasePurePath_with_name(cls, invalid, p,
                                pure_stem \o concat(BasePurePath_parse_name(p).suffixes))

\* self.with_stem(stem)
BasePurePath_with_stem(cls, invalid, p, stem) ==
    IF stem = <<>>
    THEN Raised("ValueError")
    ELSE BasePurePath_with_name(cls, invalid, p, stem \o BasePurePath_parse_name(p).suffix)

\* the suffix is one with_suffixes refuses: not started by the suffix
\* separator, or the suffix separator alone
InvalidSuffix(suffix) ==
    \/ Slice(suffix, 0, 1) # <<SUFFIX_SEPARATOR>>
    \/ suffix = <<SUFFIX_SEPARATOR>>

\* variant: the suffix is added to the name, whose own suffix stays
BasePurePath_with_suffix_appending(cls, invalid, p, suffix) ==
    IF (suffix # <<>> /\ Slice(suffix, 0, 1) # <<SUFFIX_SEPARATOR>>)
       \/ suffix = <<SUFFIX_SEPARATOR>>
    THEN Raised("ValueError")
    ELSE BasePurePath_with_name(cls, invalid, p, BasePurePath_parse_name(p).name \o suffix)

\* self.with_suffix(suffix): the empty suffix is let through
BasePurePath_with_suffix(cls, invalid, p, suffix) ==
    IF (suffix # <<>> /\ Slice(suffix, 0, 1) # <<SUFFIX_SEPARATOR>>)
       \/ suffix = <<SUFFIX_SEPARATOR>>
    THEN Raised("ValueError")
    ELSE BasePurePath_with_name(cls, invalid, p, BasePurePath_parse_name(p).stem \o suffix)

\* self.with_suffixes(*suffixes)
BasePurePath_with_suffixes(cls, invalid, p, suffixes) ==
    IF \E i \in 1..Len(suffixes) : InvalidSuffix(suffixes[i])
    THEN Raised("ValueError")
    ELSE BasePurePath_with_name(cls, invalid, p,
                                BasePurePath_parse_name(p).pure_stem \o concat(suffixes))

\* whether the call resolved the name attributes of the receiver: every
\* call that goes past its own checks reads self.name, with_suffix reads
\* self.stem before any check is made by with_name
ReadsName(method, a) ==
    CASE method = "with_name" -> TRUE
      [] method = "with_stem" -> a[1] # <<>>
      [] method = "with_suffix" ->
             ~((a[1] # <<>> /\ Slice(a[1], 0, 1) # <<SUFFIX_SEPARATOR>>)
               \/ a[1] = <<SUFFIX_SEPARATOR>>)
      [] method = "with_pure_stem" ->
             /\ a[1] # <<>>
             /\ a[1][Len(a[1])] # SUFFIX_SEPARATOR
             /\ SUFFIX_SEPARATOR \notin CharsOf(lstrip(a[1], SUFFIX_SEPARATOR))
      [] method = "with_suffixes" -> \A i \in 1..Len(a) : ~InvalidSuffix(a[i])
      [] OTHER -> FALSE

\* the outcome of self.<method>(*a) for the five methods
with_method(method, cls, invalid, p, a) ==
    CASE method = "with_name" -> BasePurePath_with_name(cls, invalid, p, a[1])
      [] method = "with_stem" -> BasePurePath_with_stem(cls, invalid, p, a[1])
      [] method = "with_suffix" -> BasePurePath_with_suffix(cls, invalid, p, a[1])
      [] method = "with_pure_stem" -> BasePurePath_with_pure_stem(cls, invalid, p, a[1])
      [] OTHER -> BasePurePath_with_suffixes(cls, invalid, p, a)

(***************************************************************************)
(* parent and parents                                                      *)
(***************************************************************************)
\* the list parents of _get_parents: the receiver's drive and root with
\* ever fewer tail segments, then the bare anchor or, without an anchor,
\* cls()
ParentsList(cls, invalid, p) ==
    [i \in 1..Len(p.tail) |->
        IF i < Len(p.tail)
        THEN BasePurePath_new_parts(cls, invalid, p.drive, p.root,
                                    SubSeq(p.tail, 1, Len(p.tail) - i))
        ELSE IF anchor(p) # <<>>
             THEN BasePurePath_new_parts(cls, invalid, p.drive, p.root, <<>>)
        ELSE BasePurePath_new(cls, invalid, <<>>)]

\* cls._get_parents(path_instance): parent, parents
BasePurePath_get_parents(cls, invalid, p) ==
    LET parents == ParentsList(cls, invalid, p)
    IN IF \E i \in 1..Len(parents) : parents[i].exc # "None"
       THEN [exc |-> "ValueError", parent |-> Raised("ValueError"), parents |-> <<>>]
       ELSE [exc |-> "None",
             parent |-> IF parents # <<>> THEN parents[1]
                        ELSE Parsed(p.drive, p.root, p.tail),
             parents |-> parents]

\* parents[i] for the list parents: a negative index counts from the end
list_getitem(parents, i) ==
    IF i >= 0
    THEN (IF i < Len(parents) THEN parents[i + 1] ELSE Raised("IndexError"))
    ELSE (IF -i <= Len(parents) THEN parents[Len(parents) + i + 1]
          ELSE Raised("IndexError"))

\* parents[i] = value for the list parents: the list it then is, or the
\* IndexError of an index it does not have
list_setitem(parents, i, value) ==
    IF i >= 0 /\ i < Len(parents)
    THEN [exc |-> "None", list |-> [parents EXCEPT ![i + 1] = value]]
    ELSE IF i < 0 /\ -i <= Len(parents)
         THEN [exc |-> "None", list |-> [parents EXCEPT ![Len(parents) + i + 1] = value]]
    ELSE [exc |-> "IndexError", list |-> parents]

(***************************************************************************)
(* __getattr__, one statement at a time                                    *)
(***************************************************************************)
\* variant: the instance is taken to have the attribute as soon as it has
\* one of the attributes resolved with it
Found_by_group(present, name) ==
    \E i \in 1..Len(GroupOf(name)) : GroupOf(name)[i] \in present

\* self.<name> finds the attribute in the instance: __getattr__ is called
\* only when it does not
Found(present, name) == name \in present

\* the exception resolver_callable(self) raises for the key the attribute
\* is in, "None" when it returns
resolver_raises(cls, invalid, p, name) ==
    IF name \in NAME_ATTRIBUTES THEN "None"
    ELSE BasePurePath_get_parents(cls, invalid, p).exc

\* results[i] for the attribute of that index in its key
resolver_result(cls, invalid, p, name) ==
    IF name \in NAME_ATTRIBUTES THEN BasePurePath_parse_name(p)[name]
    ELSE IF name = "parent" THEN BasePurePath_get_parents(cls, invalid, p).parent
    ELSE BasePurePath_get_parents(cls, invalid, p).parents

(***************************************************************************)
(* convert_path, is_relative_to, relative_to, match, and the constructor   *)
(* given a path                                                            *)
(***************************************************************************)
\* cls.convert_path(path) for a str: cls(path)
BasePurePath_convert_path(cls, invalid, path) == BasePurePath_new(cls, invalid, <<path>>)

\* the outcome of a call that returns a truth value
Answered(value) == [exc |-> "None", value |-> value]
Failed(e) == [exc |-> e, value |-> FALSE]

\* F(x), x being computed once and F applied to its value
With(x, F(_)) == CHOOSE result \in {F(value) : value \in {x}} : TRUE

\* self.is_relative_to(other) for the path other was converted to:
\* other == self or other in self.parents, self.parents being read, and
\* computed by _get_parents, only when the first comparison fails
BasePurePath_is_relative_to_path(cls, invalid, p, q) ==
    IF PathEq(q, p) THEN Answered(TRUE)
    ELSE With(BasePurePath_get_parents(cls, invalid, p),
              LAMBDA results :
                  IF results.exc # "None" THEN Failed(results.exc)
                  ELSE Answered(\E i \in 1..Len(results.parents) :
                                    PathEq(q, results.parents[i])))

\* self.is_relative_to(other) for a str
BasePurePath_is_relative_to(cls, invalid, p, other) ==
    With(<<BasePurePath_convert_path(cls, invalid, other),
           parse_path_assigns(cls, invalid, other)>>,
         LAMBDA converted :
             IF converted[1].exc # "None" THEN Failed(converted[1].exc)
             ELSE BasePurePath_is_relative_to_path(cls, converted[2], p, converted[1]))

\* self.relative_to(other) for the path other was converted to
BasePurePath_relative_to_path(cls, invalid, p, q) ==
    With(BasePurePath_is_relative_to_path(cls, invalid, p, q),
         LAMBDA related :
             IF related.exc # "None" THEN Raised(related.exc)
             ELSE IF ~related.value THEN Raised("ValueError")
             ELSE BasePurePath_new_parts(cls, invalid, <<>>, <<>>,
                                         SliceFrom(p.tail, Len(q.tail))))

\* self.relative_to(other, **keywords) for a str: the method has the one
\* parameter other, a call with a keyword argument fails before its body
BasePurePath_relative_to(cls, invalid, p, other, keywords) ==
    IF keywords # {} THEN Raised("TypeError")
    ELSE With(<<BasePurePath_convert_path(cls, invalid, other),
                parse_path_assigns(cls, invalid, other)>>,
              LAMBDA converted :
                  IF converted[1].exc # "None" THEN Raised(converted[1].exc)
                  ELSE BasePurePath_relative_to_path(cls, converted[2], p, converted[1]))

\* self.match(pattern)
BasePurePath_match(cls, p, pattern) == Failed("NotImplementedError")

\* cls(p) for an instance p of cls: the elements of the tuple p is are the
\* paths joined and parsed
BasePurePath_new_path(cls, invalid, p) == BasePurePath_new(cls, invalid, AsTuple(p))

(***************************************************************************)
(* Patterns translated to regular expressions: fnmatch_.translate and      *)
(* glob_.translate.  A regular expression is a list of items and a         *)
(* pattern holds no '['.                                                   *)
(***************************************************************************)
\* a class of characters: those of chars, or every character but those
Only(chars) == [not |-> FALSE, chars |-> chars]
AllBut(chars) == [not |-> TRUE, chars |-> chars]
\* . under (?s)
ANY == AllBut({})
InClass(class, c) == (c \in class.chars) # class.not

\* X, X*, X+ and (?!X) for a class X
One(class) == [kind |-> "one", class |-> class, fixed |-> <<>>]
Star(class) == [kind |-> "star", class |-> class, fixed |-> <<>>]
Plus(class) == [kind |-> "plus", class |-> class, fixed |-> <<>>]
NotAhead(class) == [kind |-> "not_ahead", class |-> class, fixed |-> <<>>]
\* (?>.*?fixed) for a list fixed of classes
Atomic(fixed) == [kind |-> "atomic", class |-> ANY, fixed |-> fixed]
\* (?:.+sep)?, (?:[^sep.][^sep]*sep)* and (?:[^sep.][^sep]*)? for the
\* class sep of the separators
AnySegmentsHidden(sep) ==
    [kind |-> "any_segments_hidden", class |-> sep, fixed |-> <<>>]
AnySegments(sep) == [kind |-> "any_segments", class |-> sep, fixed |-> <<>>]
OneLastSegmentOpt(sep) ==
    [kind |-> "one_last_segment_opt", class |-> sep, fixed |-> <<>>]

RECURSIVE fnmatch__translate_from(_, _, _, _)
\* the loop of _translate: res after the characters of pat
fnmatch__translate_from(pat, STAR, QUESTION_MARK, res) ==
    IF pat = <<>> THEN res
    ELSE fnmatch__translate_from(Tail(pat), STAR, QUESTION_MARK,
             IF Head(pat) = "*"
             THEN IF res = <<>> \/ res[Len(res)] # STAR
                  THEN Append(res, STAR)
                  ELSE res
             ELSE IF Head(pat) = QMARK
             THEN Append(res, QUESTION_MARK)
             ELSE Append(res, One(Only({Head(pat)}))))

\* fnmatch_._translate(pat, STAR, QUESTION_MARK): consecutive '*' are
\* compressed into one STAR
fnmatch__translate(pat, STAR, QUESTION_MARK) ==
    fnmatch__translate_from(pat, STAR, QUESTION_MARK, <<>>)

\* how many items at the start of inp are not STAR
RECURSIVE FixedLength(_, _)
FixedLength(inp, STAR) ==
    IF inp = <<>> \/ Head(inp) = STAR THEN 0
    ELSE 1 + FixedLength(Tail(inp), STAR)

\* the pairing STAR fixed left to backtracking
interior_backtracking(fixed) ==
    <<Star(ANY)>> \o fixed
\* an interior pairing STAR fixed: a minimal match of .*? followed by
\* fixed, with no possibility of backtracking
interior(fixed) ==
    <<Atomic([j \in 1..Len(fixed) |-> fixed[j].class])>>

RECURSIVE join_translated_stars(_, _)
\* the second loop of _join_translated_parts: inp starts with STAR
join_translated_stars(inp, STAR) ==
    IF inp = <<>> THEN <<>>
    ELSE IF Len(inp) = 1 THEN <<Star(ANY)>>
    ELSE LET n == FixedLength(Tail(inp), STAR)
             fixed == SubSeq(inp, 2, n + 1)
         IN IF n + 1 = Len(inp)
            THEN <<Star(ANY)>> \o fixed
            ELSE interior(fixed)
                     \o join_translated_stars(SubSeq(inp, n + 2, Len(inp)), STAR)

\* _join_translated_parts(inp, STAR): the fixed pieces at the start, then
\* STAR fixed STAR fixed ...
join_translated_parts(inp, STAR) ==
    LET n == FixedLength(inp, STAR)
    IN SubSeq(inp, 1, n) \o join_translated_stars(SubSeq(inp, n + 1, Len(inp)), STAR)

\* fnmatch_.translate(pat), the items between (?s: and )\Z
fnmatch_translate(pat) ==
    join_translated_parts(fnmatch__translate(pat, Star(ANY), One(ANY)), Star(ANY))

RECURSIVE re_split(_, _)
\* re.split(any_sep, pat): never an empty list
re_split(seps, pat) ==
    IF \A j \in 1..Len(pat) : pat[j] \notin seps
    THEN <<pat>>
    ELSE LET j == CHOOSE n \in 1..Len(pat) :
                      pat[n] \in seps /\ \A l \in 1..(n - 1) : pat[l] \notin seps
         IN <<SubSeq(pat, 1, j - 1)>> \o re_split(seps, SubSeq(pat, j + 1, Len(pat)))

\* one_last_segment of glob_.translate
one_last_segment(include_hidden, seps) ==
    IF include_hidden
    THEN <<Plus(AllBut(seps))>>
    ELSE <<One(AllBut(seps \cup {DOT})), Star(AllBut(seps))>>

\* what the loop of glob_.translate appends to results for parts[idx]
glob_translate_part(parts, idx, recursive, include_hidden, seps) ==
    LET part == parts[idx]
        any_sep == <<One(Only(seps))>>
        not_sep == One(AllBut(seps))
        last == idx = Len(parts)
    IN IF part = <<"*">>
       THEN one_last_segment(include_hidden, seps)
                \o (IF last THEN <<>> ELSE any_sep)
       ELSE IF recursive /\ part = <<"*", "*">>
       THEN IF ~last
            THEN IF parts[idx + 1] # <<"*", "*">>
                 THEN IF include_hidden
                      THEN <<AnySegmentsHidden(Only(seps))>>
                      ELSE <<AnySegments(Only(seps))>>
                 ELSE <<>>
            ELSE IF include_hidden
                 THEN <<Star(ANY)>>
                 ELSE <<AnySegments(Only(seps)), OneLastSegmentOpt(Only(seps))>>
       ELSE (IF part # <<>>
             THEN (IF ~include_hidden /\ part[1] \in {"*", QMARK}
                   THEN <<NotAhead(Only({DOT}))>>
                   ELSE <<>>)
                      \o fnmatch__translate(part, Star(AllBut(seps)), not_sep)
             ELSE <<>>)
                \o (IF last THEN <<>> ELSE any_sep)

\* the parts translated with every '**' a recursive wildcard
glob_translate_parts_recursive(parts, recursive, include_hidden, seps) ==
    concat([idx \in 1..Len(parts) |->
                glob_translate_part(parts, idx, TRUE, include_hidden, seps)])
\* ''.join(results) for the parts of a pattern
glob_translate_parts(parts, recursive, include_hidden, seps) ==
    concat([idx \in 1..Len(parts) |->
                glob_translate_part(parts, idx, recursive, include_hidden, seps)])

\* glob_.translate(pat, recursive=, include_hidden=, seps=), the items
\* between (?s: and )\Z
glob_translate(pat, recursive, include_hidden, seps) ==
    glob_translate_parts(re_split(seps, pat), recursive, include_hidden, seps)

\* whether the classes of fixed match text from position j on
FixedAt(fixed, text, j) ==
    /\ j + Len(fixed) - 1 <= Len(text)
    /\ \A l \in 1..Len(fixed) : InClass(fixed[l], text[j + l - 1])

\* the positions an item that matches text from position j on can end at
Ends(it, text, j) ==
    LET n == Len(text)
        in(l) == InClass(it.class, text[l])
    IN CASE it.kind = "one" ->
                IF j <= n /\ in(j) THEN {j + 1} ELSE {}
         [] it.kind = "star" ->
                {e \in j..(n + 1) : \A l \in j..(e - 1) : in(l)}
         [] it.kind = "plus" ->
                {e \in (j + 1)..(n + 1) : \A l \in j..(e - 1) : in(l)}
         [] it.kind = "not_ahead" ->
                IF j <= n /\ in(j) THEN {} ELSE {j}
         [] it.kind = "atomic" ->
                {e \in j..(n + 1) :
                    /\ e - Len(it.fixed) >= j
                    /\ FixedAt(it.fixed, text, e - Len(it.fixed))
                    /\ \A l \in j..(e - Len(it.fixed) - 1) :
                           ~FixedAt(it.fixed, text, l)}
         [] it.kind = "any_segments_hidden" ->
                {j} \cup {e \in (j + 2)..(n + 1) : in(e - 1)}
         [] it.kind = "any_segments" ->
                {e \in j..(n + 1) :
                    \/ e = j
                    \/ /\ in(e - 1)
                       /\ \A l \in j..(e - 1) :
                              (l = j \/ in(l - 1)) =>
                                  ~in(l) /\ text[l] # DOT}
         [] it.kind = "one_last_segment_opt" ->
                {j} \cup {e \in (j + 1)..(n + 1) :
                             /\ ~in(j) /\ text[j] # DOT
                             /\ \A l \in (j + 1)..(e - 1) : ~in(l)}

RECURSIVE MatchFrom(_, _, _, _)
\* whether the items from the n-th on match text from position j to its end
MatchFrom(regex, text, n, j) ==
    IF n > Len(regex) THEN j = Len(text) + 1
    ELSE \E e \in Ends(regex[n], text, j) : MatchFrom(regex, text, n + 1, e)

\* re.compile('(?s:' + regex + ')\Z').match(text) is not None
re_match(regex, text) == MatchFrom(regex, text, 1, 1)

(***************************************************************************)
(* The inputs the calls are made with.                                     *)
(***************************************************************************)
\* every text of at most n characters of Alphabet
Texts(n) == UNION {[1..k -> Alphabet] : k \in 0..n}

\* leading texts of the path strings: one per form the parsers tell apart
Seeds ==
    { <<>>,
      <<"a", DOT>>,
      <<"C", COLON>>,
      <<SLASH, "a", SLASH>>,
      <<SLASH, SLASH>>,
      <<SLASH, SLASH, "a", SLASH>>,
      <<SLASH, SLASH, "a", SLASH, "a">>,
      <<SLASH, SLASH, SLASH, "a">>,
      <<BACKSLASH, BACKSLASH, QMARK, BACKSLASH>>,
      <<BACKSLASH, BACKSLASH, DOT, BACKSLASH>>,
      <<BACKSLASH, BACKSLASH, QMARK, BACKSLASH, "C", COLON>>,
      <<BACKSLASH, BACKSLASH, QMARK, BACKSLASH, "U", "N", "C">>,
      <<BACKSLASH, BACKSLASH, QMARK, BACKSLASH, "U", "N", "C", BACKSLASH>>,
      <<BACKSLASH, BACKSLASH, QMARK, BACKSLASH, "U", "N", "C", BACKSLASH, "a", BACKSLASH>>,
      <<BACKSLASH, BACKSLASH, QMARK, BACKSLASH, "U", "N", "C", BACKSLASH, "a", BACKSLASH, "a">>,
      <<BACKSLASH, BACKSLASH, QMARK, BACKSLASH, "U", "N", "C", BACKSLASH, BACKSLASH, "a">> }

\* the path strings given to _parse_path and to the constructor
PathStrings == {seed \o body : seed \in Seeds, body \in Texts(MaxBody)}

\* the argument lists of the constructor: no argument, one path string, or
\* two short texts
ArgLists ==
    {<<>>} \cup {<<s>> : s \in PathStrings}
           \cup {<<s, t>> : s \in Texts(MaxBody - 1), t \in Texts(MaxBody - 1)}

\* the tail segments given to the drive/root/tail form of the constructor
TailParts ==
    { <<>>, <<"a">>, <<"a", DOT>>, <<"a", SPACE>>, <<"a", QMARK>>,
      <<"a", SLASH, "a">>, <<"a", BACKSLASH, "a">>, <<DOT, "a", DOT, "a">>,
      <<"a", DOT, "a", DOT, "a">> }
Tails == UNION {[1..k -> TailParts] : k \in 0..MaxTail}
Drives == {<<>>, <<"C", COLON>>, <<BACKSLASH, BACKSLASH, QMARK>>}
Roots(cls) == {<<>>, <<SEPARATOR(cls)>>}

\* the names given to with_name, besides the receiver's own
Names ==
    { <<>>, <<"d", DOT, "x">>, <<"d", DOT>>,
      <<"d", SLASH, "x">>, <<"d", BACKSLASH, "x">> }
\* the stems given to with_stem
Stems == {<<>>, <<"d">>, <<"d", SLASH>>}
\* the suffixes given to with_suffix
SuffixArgs ==
    {<<>>, <<DOT>>, <<DOT, "x">>, <<DOT, DOT>>, <<DOT, "x", DOT, "y">>}
\* the pure stems given to with_pure_stem
PureStems == {<<"d", DOT>>, <<"d", DOT, "x">>, <<DOT, "d">>}
\* the argument lists of with_suffixes
SuffixLists ==
    { <<>>, <<<<DOT, "x">>, <<DOT, "y">>>>, <<<<DOT, "x">>, <<DOT>>>> }
\* the argument lists of joinpath
PathSegments ==
    { <<>>, <<<<"b">>>>, <<<<SLASH, "b">>>>, <<<<"b">>, <<SLASH, "b">>>>,
      <<<<BACKSLASH, BACKSLASH, QMARK, BACKSLASH, "b">>>> }
\* the right operands of /
Others == {<<"b">>, <<SLASH, "b">>}
\* the indices parents is read at
Indices == (0 - MaxIndex)..MaxIndex

\* the path strings relative_to and is_relative_to are called on and with:
\* nothing, a root, a drive, or a drive and a root, then at most MaxTail
\* segments each followed by a separator but for the last
RelativeAnchors == {<<>>, <<SLASH>>, <<"C", COLON>>, <<"C", COLON, SLASH>>}
RelativeSegments == {<<>>, <<"a">>, <<"b">>}
RelativePaths ==
    {a \o join(SLASH, t) :
        a \in RelativeAnchors,
        t \in UNION {[1..k -> RelativeSegments] : k \in 0..MaxTail}}
\* the threads that share an instance
Threads == {1, 2}
\* the path strings of the instances they share
SharedPaths ==
    { <<>>, <<DOT, "a", DOT, "x", DOT, "y">>,
      <<"a", SLASH, "b", DOT, "x">>, <<SLASH, "a", SLASH, "b">> }
\* the keyword arguments relative_to is called with
Keywords == {{}, {"walk_up"}}
\* the patterns match is called with
Patterns == {<<"a">>, <<"*">>, <<SLASH, "a">>}
\* the patterns glob_.translate is called with
GlobAlphabet == {"*", "a", SLASH}
GlobPatterns == UNION {[1..n -> GlobAlphabet] : n \in 0..MaxPattern}
\* the values of its argument seps
Separators == {{SLASH}, {SLASH, BACKSLASH}}
\* the strings the translated patterns are matched against
StringAlphabet == {"a", DOT, SLASH, BACKSLASH}
Strings == UNION {[1..n -> StringAlphabet] : n \in 0..MaxString}
\* the patterns fnmatch_.translate is called with: at most MaxPattern
\* pieces
FnmatchPieces == {<<"*">>, <<"a">>, <<"*", "a">>, <<"*", "*", "b">>}
FnmatchPatterns ==
    {concat(pieces) : pieces \in UNION {[1..n -> FnmatchPieces] : n \in 0..MaxPattern}}
\* the strings they are matched against
FnmatchStrings == UNION {[1..n -> {"a", "b"}] : n \in 0..MaxString}

(***************************************************************************)
(* State.                                                                  *)
(***************************************************************************)
VARIABLES
    INVALID_PATH_CHARS, \* the class attribute INVALID_PATH_CHARS of every class
    op,                 \* the call made last: "none" when none is pending
    cls,                \* the class it was made on
    args,               \* its arguments, a list of str
    ret,                \* its outcome: the exception raised ("None" when none)
                        \* and the drive, root and tail returned or of the
                        \* path returned
    held,               \* whether the caller holds a path instance
    self,               \* that instance
    JOINPATH_INSANE_BEHAVIOR,
                        \* the class attribute of that name of the class of
                        \* the instance joinpath was called on
    recv,               \* the instance the method called last was called on
    origin,             \* the instance the constructor returned, from which
                        \* the caller goes from parent to parent
    walked,             \* how many times .parent was applied since
    parents,            \* the list the caller read .parents to
    index,              \* the index it then read the list at
    answer,             \* the truth value the call returned, FALSE when it
                        \* returned none
    kwargs              \* the names of the keyword arguments of the call

\* two threads read derived attributes of the instance self
VARIABLES
    present,            \* the derived attributes the instance has: those
                        \* __setattr__ was called for
    cache,              \* their values in the instance
    pc,                 \* where each thread is: about to read an attribute,
                        \* entering __getattr__, in its loop, or back with
                        \* the outcome
    want,               \* the attribute each thread reads
    pos,                \* the index i of the loop of __getattr__ in each
    got,                \* the value each thread was returned
    raised,             \* the exception each thread was raised
    accesses            \* how many attributes each thread read

\* a pattern is translated and the outcome matched against a string
VARIABLES
    translate_args,     \* the arguments translate was called with
    compiled,           \* the items of the regular expression it returned
    string,             \* the string the regular expression is matched
                        \* against
    stage,              \* "none", "compiled", "running" or "done"
    verdict,            \* whether the string matched
    item,               \* the item of the regular expression the matcher is at
    within,             \* where in an item (?>.*?fixed) it is: 0 before an
                        \* attempt of fixed, else the class of fixed it
                        \* matches next
    cursor,             \* the position of the string it is at
    stack,              \* the choice points it can go back to, the last
                        \* one made on top
    group,              \* the height of the stack and the cursor at the
                        \* time it entered the item (?>...) it is in
    steps,              \* how many steps it has made
    commits             \* the items (?>...) it left, with the positions
                        \* it entered and left them at

path_vars == <<INVALID_PATH_CHARS, op, cls, args, ret, held, self,
               JOINPATH_INSANE_BEHAVIOR, recv, origin, walked, parents, index,
               answer, kwargs>>
thread_vars == <<present, cache, pc, want, pos, got, raised, accesses>>
run_vars == <<item, within, cursor, stack, group, steps, commits>>
translate_vars == <<translate_args, compiled, string, stage, verdict, run_vars>>
\* the variables the calls made by one caller leave alone
elsewhere == <<thread_vars, translate_vars>>

vars == <<path_vars, elsewhere>>

\* the arguments of no call of translate
NoArgs == [pat |-> <<>>, recursive |-> FALSE, include_hidden |-> FALSE, seps |-> {}]

\* the matcher is in no item (?>...)
NoGroup == [depth |-> 0, from |-> 0]

Init ==
    /\ INVALID_PATH_CHARS = [c \in Classes |-> INVALID_PATH_CHARS_Init(c)]
    /\ op = "none"
    /\ cls = PurePosixPath
    /\ args = <<>>
    /\ ret = NoRet
    /\ held = FALSE
    /\ self = NoPath
    /\ JOINPATH_INSANE_BEHAVIOR = FALSE
    /\ recv = NoPath
    /\ origin = NoPath
    /\ walked = 0
    /\ parents = <<>>
    /\ index = 0
    /\ answer = FALSE
    /\ kwargs = {}
    /\ present = {}
    /\ cache = [attribute \in DERIVED_ATTRIBUTES |-> <<>>]
    /\ pc = [t \in Threads |-> "ready"]
    /\ want = [t \in Threads |-> "name"]
    /\ pos = [t \in Threads |-> 0]
    /\ got = [t \in Threads |-> <<>>]
    /\ raised = [t \in Threads |-> "None"]
    /\ accesses = [t \in Threads |-> 0]
    /\ translate_args = NoArgs
    /\ compiled = <<>>
    /\ string = <<>>
    /\ stage = "none"
    /\ verdict = FALSE
    /\ item = 0
    /\ within = 0
    /\ cursor = 0
    /\ stack = <<>>
    /\ group = NoGroup
    /\ steps = 0
    /\ commits = <<>>

(***************************************************************************)
(* Calls.                                                                  *)
(***************************************************************************)
\* c._parse_path(path), called on the class
ParsePath(c, path) ==
    /\ op = "none"
    /\ op' = "_parse_path"
    /\ cls' = c
    /\ args' = <<path>>
    /\ ret' = parse_path(c, path)
    /\ INVALID_PATH_CHARS' = parse_path_assigns(c, INVALID_PATH_CHARS, path)
    /\ UNCHANGED <<held, self, JOINPATH_INSANE_BEHAVIOR, recv, origin, walked,
                   parents, index>>
    /\ UNCHANGED <<answer, kwargs, elsewhere>>

\* c(*a)
New(c, a) ==
    /\ op = "none"
    /\ op' = "__new__"
    /\ cls' = c
    /\ args' = a
    /\ ret' = BasePurePath_new(c, INVALID_PATH_CHARS, a)
    /\ INVALID_PATH_CHARS' =
           parse_path_assigns(c, INVALID_PATH_CHARS, join(SEPARATOR(c), a))
    /\ held' = (ret'.exc = "None")
    /\ self' = IF ret'.exc = "None"
               THEN PathObject(ret'.drive, ret'.root, ret'.tail)
               ELSE NoPath
    /\ origin' = self'
    /\ UNCHANGED <<JOINPATH_INSANE_BEHAVIOR, recv, walked, parents, index>>
    /\ UNCHANGED <<answer, kwargs, elsewhere>>

\* c(drive = d, root = r, tail = t)
NewParts(c, d, r, t) ==
    /\ op = "none"
    /\ op' = "__new__parts"
    /\ cls' = c
    /\ args' = <<d, r>> \o t
    /\ ret' = BasePurePath_new_parts(c, INVALID_PATH_CHARS, d, r, t)
    /\ held' = (ret'.exc = "None")
    /\ self' = IF ret'.exc = "None"
               THEN PathObject(ret'.drive, ret'.root, ret'.tail)
               ELSE NoPath
    /\ origin' = self'
    /\ UNCHANGED <<INVALID_PATH_CHARS, JOINPATH_INSANE_BEHAVIOR, recv, walked,
                   parents, index>>
    /\ UNCHANGED <<answer, kwargs, elsewhere>>

\* str(self): computed once and kept in self._str
Str ==
    /\ held
    /\ self' = IF "_str" \in self.attrs
               THEN self
               ELSE [self EXCEPT !.attrs = @ \cup {"_str"},
                                 !.str = BasePurePath_str(cls, self)]
    /\ UNCHANGED <<INVALID_PATH_CHARS, op, cls, args, ret, held,
                   JOINPATH_INSANE_BEHAVIOR, recv, origin, walked, parents, index>>
    /\ UNCHANGED <<answer, kwargs, elsewhere>>

\* self.<attribute> for one of name, stem, suffix, pure_stem, suffixes:
\* __getattr__ runs when the instance has no such attribute yet, and sets
\* the five of them
GetNameAttribute(attribute) ==
    /\ held
    /\ self' = IF attribute \in self.attrs
               THEN self
               ELSE LET results == BasePurePath_parse_name(self)
                    IN [self EXCEPT !.attrs = @ \cup NAME_ATTRIBUTES,
                                    !.name = results.name,
                                    !.stem = results.stem,
                                    !.suffix = results.suffix,
                                    !.pure_stem = results.pure_stem,
                                    !.suffixes = results.suffixes]
    /\ UNCHANGED <<INVALID_PATH_CHARS, op, cls, args, ret, held,
                   JOINPATH_INSANE_BEHAVIOR, recv, origin, walked, parents, index>>
    /\ UNCHANGED <<answer, kwargs, elsewhere>>

\* a method is called on the instance as the constructor returned it
Fresh == held /\ op \in {"__new__", "__new__parts"} /\ self.attrs = {}

\* self.<method>(*a) for one of the with_ methods: the caller keeps the
\* outcome and lets go of the receiver
WithCall(method, a) ==
    /\ Fresh
    /\ op' = method
    /\ args' = a
    /\ ret' = with_method(method, cls, INVALID_PATH_CHARS, self, a)
    /\ recv' = IF ReadsName(method, a) THEN ResolveName(self) ELSE self
    /\ held' = FALSE
    /\ self' = NoPath
    /\ origin' = NoPath
    /\ UNCHANGED <<INVALID_PATH_CHARS, cls, JOINPATH_INSANE_BEHAVIOR, walked,
                   parents, index>>
    /\ UNCHANGED <<answer, kwargs, elsewhere>>

WithName(name) == WithCall("with_name", <<name>>)
WithStem(stem) == WithCall("with_stem", <<stem>>)
WithSuffix(suffix) == WithCall("with_suffix", <<suffix>>)
WithPureStem(pure_stem) == WithCall("with_pure_stem", <<pure_stem>>)
WithSuffixes(suffixes) == WithCall("with_suffixes", suffixes)

\* self.joinpath(*pathsegments) on an instance of a class, or of a subclass
\* of it, whose JOINPATH_INSANE_BEHAVIOR is insane
JoinPath(insane, pathsegments) ==
    /\ Fresh
    /\ op' = "joinpath"
    /\ args' = pathsegments
    /\ JOINPATH_INSANE_BEHAVIOR' = insane
    /\ ret' = BasePurePath_joinpath(cls, INVALID_PATH_CHARS, insane, self, pathsegments)
    /\ INVALID_PATH_CHARS' =
           BasePurePath_joinpath_assigns(cls, INVALID_PATH_CHARS, pathsegments)
    /\ recv' = self
    /\ held' = FALSE
    /\ self' = NoPath
    /\ origin' = NoPath
    /\ UNCHANGED <<cls, walked, parents, index>>
    /\ UNCHANGED <<answer, kwargs, elsewhere>>

\* self / other, likewise
Truediv(insane, other) ==
    /\ Fresh
    /\ op' = "__truediv__"
    /\ args' = <<other>>
    /\ JOINPATH_INSANE_BEHAVIOR' = insane
    /\ ret' = BasePurePath_truediv(cls, INVALID_PATH_CHARS, insane, self, other)
    /\ INVALID_PATH_CHARS' =
           BasePurePath_joinpath_assigns(cls, INVALID_PATH_CHARS, <<other>>)
    /\ recv' = self
    /\ held' = FALSE
    /\ self' = NoPath
    /\ origin' = NoPath
    /\ UNCHANGED <<cls, walked, parents, index>>
    /\ UNCHANGED <<answer, kwargs, elsewhere>>

\* the instance .parent is read from next: the one the constructor
\* returned, then the one .parent returned last
Walker == IF op = "parent" THEN PathObject(ret.drive, ret.root, ret.tail) ELSE self

\* p = p.parent: the caller goes up from the instance the constructor
\* returned, up to MaxBeyond times more than its tail is long, keeping the
\* parent and letting go of the instance it read it from
GetParent ==
    /\ Fresh \/ (op = "parent" /\ ret.exc = "None")
    /\ walked < Len(origin.tail) + MaxBeyond
    /\ ret' = BasePurePath_get_parents(cls, INVALID_PATH_CHARS, Walker).parent
    /\ op' = "parent"
    /\ args' = <<>>
    /\ recv' = Walker
    /\ walked' = walked + 1
    /\ held' = FALSE
    /\ self' = NoPath
    /\ UNCHANGED <<INVALID_PATH_CHARS, cls, JOINPATH_INSANE_BEHAVIOR, origin,
                   parents, index>>
    /\ UNCHANGED <<answer, kwargs, elsewhere>>

\* self.parents[i]
GetParentsItem(i) ==
    /\ Fresh
    /\ LET results == BasePurePath_get_parents(cls, INVALID_PATH_CHARS, self)
       IN /\ parents' = results.parents
          /\ ret' = IF results.exc = "None"
                    THEN list_getitem(results.parents, i)
                    ELSE Raised(results.exc)
    /\ op' = "parents"
    /\ args' = <<>>
    /\ index' = i
    /\ recv' = self
    /\ held' = FALSE
    /\ self' = NoPath
    /\ origin' = NoPath
    /\ UNCHANGED <<INVALID_PATH_CHARS, cls, JOINPATH_INSANE_BEHAVIOR, walked>>
    /\ UNCHANGED <<answer, kwargs, elsewhere>>

\* par = self.parents; par[0]; par[0] = self: the caller assigns to the
\* element it read first of the list __getattr__ keeps as self.parents
SetParentsItem ==
    /\ op = "parents" /\ index = 0 /\ ret.exc = "None"
    /\ LET results == list_setitem(parents, index,
                                   Parsed(recv.drive, recv.root, recv.tail))
       IN /\ parents' = results.list
          /\ ret' = Raised(results.exc)
    /\ op' = "parents.__setitem__"
    /\ UNCHANGED <<INVALID_PATH_CHARS, cls, args, held, self,
                   JOINPATH_INSANE_BEHAVIOR, recv, origin, walked, index>>
    /\ UNCHANGED <<answer, kwargs, elsewhere>>

\* self.is_relative_to(other)
IsRelativeTo(other) ==
    /\ Fresh
    /\ op' = "is_relative_to"
    /\ args' = <<other>>
    /\ LET results == BasePurePath_is_relative_to(cls, INVALID_PATH_CHARS, self, other)
       IN /\ ret' = Raised(results.exc)
          /\ answer' = results.value
    /\ INVALID_PATH_CHARS' = parse_path_assigns(cls, INVALID_PATH_CHARS, other)
    /\ recv' = self
    /\ held' = FALSE
    /\ self' = NoPath
    /\ origin' = NoPath
    /\ UNCHANGED <<cls, JOINPATH_INSANE_BEHAVIOR, walked, parents, index, kwargs>>
    /\ UNCHANGED elsewhere

\* self.relative_to(other, **keywords), the value of a keyword being True
RelativeTo(other, keywords) ==
    /\ Fresh
    /\ op' = "relative_to"
    /\ args' = <<other>>
    /\ kwargs' = keywords
    /\ ret' = BasePurePath_relative_to(cls, INVALID_PATH_CHARS, self, other, keywords)
    /\ INVALID_PATH_CHARS' =
           IF keywords # {} THEN INVALID_PATH_CHARS
           ELSE parse_path_assigns(cls, INVALID_PATH_CHARS, other)
    /\ recv' = self
    /\ held' = FALSE
    /\ self' = NoPath
    /\ origin' = NoPath
    /\ UNCHANGED <<cls, JOINPATH_INSANE_BEHAVIOR, walked, parents, index, answer>>
    /\ UNCHANGED elsewhere

\* self.match(pattern)
Match(pattern) ==
    /\ Fresh
    /\ op' = "match"
    /\ args' = <<pattern>>
    /\ LET results == BasePurePath_match(cls, self, pattern)
       IN /\ ret' = Raised(results.exc)
          /\ answer' = results.value
    /\ recv' = self
    /\ held' = FALSE
    /\ self' = NoPath
    /\ origin' = NoPath
    /\ UNCHANGED <<INVALID_PATH_CHARS, cls, JOINPATH_INSANE_BEHAVIOR, walked,
                   parents, index, kwargs>>
    /\ UNCHANGED elsewhere

\* cls(self): the constructor is given the instance
NewPath ==
    /\ Fresh
    /\ op' = "__new__path"
    /\ args' = AsTuple(self)
    /\ ret' = BasePurePath_new_path(cls, INVALID_PATH_CHARS, self)
    /\ INVALID_PATH_CHARS' =
           parse_path_assigns(cls, INVALID_PATH_CHARS, join(SEPARATOR(cls), AsTuple(self)))
    /\ recv' = self
    /\ held' = FALSE
    /\ self' = NoPath
    /\ origin' = NoPath
    /\ UNCHANGED <<cls, JOINPATH_INSANE_BEHAVIOR, walked, parents, index,
                   answer, kwargs>>
    /\ UNCHANGED elsewhere

\* the caller is done with the outcome of the last call and drops the
\* instance it holds; the class attributes stay as they are
Discard ==
    /\ op # "none"
    /\ op' = "none"
    /\ cls' = PurePosixPath
    /\ args' = <<>>
    /\ ret' = NoRet
    /\ held' = FALSE
    /\ self' = NoPath
    /\ JOINPATH_INSANE_BEHAVIOR' = FALSE
    /\ recv' = NoPath
    /\ origin' = NoPath
    /\ walked' = 0
    /\ parents' = <<>>
    /\ index' = 0
    /\ answer' = FALSE
    /\ kwargs' = {}
    /\ UNCHANGED <<INVALID_PATH_CHARS, elsewhere>>

\* a call on a class is made when the outcome of the one before was dropped
Idle == op = "none"

Next ==
    \/ Idle /\ \E c \in Classes, path \in PathStrings : ParsePath(c, path)
    \/ Idle /\ \E c \in Classes, a \in ArgLists : New(c, a)
    \/ Idle /\ \E c \in Classes, d \in Drives, t \in Tails :
                   \E r \in Roots(c) : NewParts(c, d, r, t)
    \/ Str
    \/ \E attribute \in NAME_ATTRIBUTES : GetNameAttribute(attribute)
    \/ Fresh /\ \E name \in Names \cup {BasePurePath_parse_name(self).name} :
                    WithName(name)
    \/ Fresh /\ \E stem \in Stems : WithStem(stem)
    \/ Fresh /\ \E suffix \in SuffixArgs : WithSuffix(suffix)
    \/ Fresh /\ \E pure_stem \in PureStems : WithPureStem(pure_stem)
    \/ Fresh /\ \E suffixes \in SuffixLists : WithSuffixes(suffixes)
    \/ Fresh /\ \E insane \in BOOLEAN, pathsegments \in PathSegments :
                    JoinPath(insane, pathsegments)
    \/ Fresh /\ \E insane \in BOOLEAN, other \in Others : Truediv(insane, other)
    \/ GetParent
    \/ Fresh /\ \E i \in Indices : GetParentsItem(i)
    \/ SetParentsItem
    \/ Discard

Spec == Init /\ [][Next]_vars

\* the calls of is_relative_to, relative_to and match, and of the
\* constructor with a path, on the paths of RelativePaths
NextMethods ==
    \/ Idle /\ \E c \in Classes, path \in RelativePaths : New(c, <<path>>)
    \/ Fresh /\ \E other \in RelativePaths : IsRelativeTo(other)
    \/ Fresh /\ \E other \in RelativePaths, keywords \in Keywords :
                    RelativeTo(other, keywords)
    \/ Fresh /\ \E pattern \in Patterns : Match(pattern)
    \/ NewPath
    \/ Discard

SpecMethods == Init /\ [][NextMethods]_vars

(***************************************************************************)
(* Two threads reading derived attributes of one instance.                 *)
(***************************************************************************)
\* thread t evaluates self.<name>: the attribute is found in the instance,
\* or __getattr__ is entered
Access(t, name) ==
    /\ Fresh
    /\ pc[t] \in {"ready", "returned"}
    /\ accesses[t] < MaxAccesses
    /\ accesses' = [accesses EXCEPT ![t] = @ + 1]
    /\ want' = [want EXCEPT ![t] = name]
    /\ IF Found(present, name)
       THEN /\ got' = [got EXCEPT ![t] = cache[name]]
            /\ raised' = [raised EXCEPT ![t] = "None"]
            /\ pc' = [pc EXCEPT ![t] = "returned"]
       ELSE /\ pc' = [pc EXCEPT ![t] = "__getattr__"]
            /\ UNCHANGED <<got, raised>>
    /\ UNCHANGED <<present, cache, pos, path_vars, translate_vars>>

\* thread t in __getattr__: results = resolver_callable(self), which
\* reads the drive, the root and the tail alone
Resolve(t) ==
    /\ pc[t] = "__getattr__"
    /\ IF resolver_raises(cls, INVALID_PATH_CHARS, self, want[t]) # "None"
       THEN /\ raised' = [raised EXCEPT ![t] =
                              resolver_raises(cls, INVALID_PATH_CHARS, self, want[t])]
            /\ pc' = [pc EXCEPT ![t] = "returned"]
            /\ UNCHANGED pos
       ELSE /\ pos' = [pos EXCEPT ![t] = 1]
            /\ pc' = [pc EXCEPT ![t] = "__setattr__"]
            /\ UNCHANGED raised
    /\ UNCHANGED <<present, cache, want, got, accesses, path_vars, translate_vars>>

\* thread t in the loop of __getattr__:
\* self.__setattr__(attribute_names[i], results[i]), and after the last
\* one the return of the result kept for name
SetAttr(t) ==
    /\ pc[t] = "__setattr__"
    /\ LET attribute == GroupOf(want[t])[pos[t]]
       IN /\ present' = present \cup {attribute}
          /\ cache' = [cache EXCEPT ![attribute] =
                           resolver_result(cls, INVALID_PATH_CHARS, self, attribute)]
    /\ IF pos[t] < Len(GroupOf(want[t]))
       THEN /\ pos' = [pos EXCEPT ![t] = @ + 1]
            /\ UNCHANGED <<pc, got, raised>>
       ELSE /\ got' = [got EXCEPT ![t] =
                           resolver_result(cls, INVALID_PATH_CHARS, self, want[t])]
            /\ raised' = [raised EXCEPT ![t] = "None"]
            /\ pc' = [pc EXCEPT ![t] = "returned"]
            /\ UNCHANGED pos
    /\ UNCHANGED <<want, accesses, path_vars, translate_vars>>

\* an instance is made of a path string and read by the two threads
NextThreads ==
    \/ Idle /\ \E c \in Classes, path \in SharedPaths : New(c, <<path>>)
    \/ \E t \in Threads, name \in DERIVED_ATTRIBUTES : Access(t, name)
    \/ \E t \in Threads : Resolve(t)
    \/ \E t \in Threads : SetAttr(t)

SpecThreads == Init /\ [][NextThreads]_vars

(***************************************************************************)
(* Patterns translated and matched.                                        *)
(***************************************************************************)
\* regex = glob_.translate(pat, recursive=, include_hidden=, seps=)
GlobTranslate(pat, recursive, include_hidden, seps) ==
    /\ stage = "none"
    /\ translate_args' = [pat |-> pat, recursive |-> recursive,
                          include_hidden |-> include_hidden, seps |-> seps]
    /\ compiled' = glob_translate(pat, recursive, include_hidden, seps)
    /\ stage' = "compiled"
    /\ UNCHANGED <<string, verdict, run_vars, path_vars, thread_vars>>

\* re.compile(regex).match(text)
ReMatch(text) ==
    /\ stage = "compiled"
    /\ string' = text
    /\ verdict' = re_match(compiled, text)
    /\ stage' = "done"
    /\ UNCHANGED <<translate_args, compiled, run_vars, path_vars, thread_vars>>

\* the regular expression is let go of
Forget ==
    /\ stage = "done"
    /\ translate_args' = NoArgs
    /\ compiled' = <<>>
    /\ string' = <<>>
    /\ stage' = "none"
    /\ verdict' = FALSE
    /\ item' = 0
    /\ within' = 0
    /\ cursor' = 0
    /\ stack' = <<>>
    /\ group' = NoGroup
    /\ steps' = 0
    /\ commits' = <<>>
    /\ UNCHANGED <<path_vars, thread_vars>>

\* patterns are translated by glob_.translate and matched
NextGlob ==
    \/ \E pat \in GlobPatterns, recursive \in BOOLEAN,
           include_hidden \in BOOLEAN, seps \in Separators :
           GlobTranslate(pat, recursive, include_hidden, seps)
    \/ \E text \in Strings : ReMatch(text)
    \/ Forget

SpecGlob == Init /\ [][NextGlob]_vars

\* regex = fnmatch_.translate(pat)
FnmatchTranslate(pat) ==
    /\ stage = "none"
    /\ translate_args' = [NoArgs EXCEPT !.pat = pat]
    /\ compiled' = fnmatch_translate(pat)
    /\ stage' = "compiled"
    /\ UNCHANGED <<string, verdict, run_vars, path_vars, thread_vars>>

\* the matcher goes to the start of item n at position c with the choice
\* points st left
Goto(n, c, st) ==
    /\ item' = n
    /\ within' = 0
    /\ cursor' = c
    /\ stack' = st
    /\ group' = IF n <= Len(compiled) /\ compiled[n].kind = "atomic"
                THEN [depth |-> Len(st), from |-> c]
                ELSE group

\* the matcher fails where it is: it goes back to the choice point made
\* last, and the string does not match when none is left
Fail ==
    IF stack = <<>>
    THEN /\ stage' = "done"
         /\ verdict' = FALSE
         /\ UNCHANGED <<item, within, cursor, stack, group>>
    ELSE LET top == stack[Len(stack)]
             rest == SubSeq(stack, 1, Len(stack) - 1)
         IN /\ IF top.scan
               THEN /\ item' = top.item
                    /\ within' = 0
                    /\ cursor' = top.cursor
                    /\ stack' = rest
                    /\ UNCHANGED group
               ELSE Goto(top.item, top.cursor, rest)
            /\ UNCHANGED <<stage, verdict>>

\* re.compile(regex).match(text) starts
Start(text) ==
    /\ stage = "compiled"
    /\ string' = text
    /\ stage' = "running"
    /\ Goto(1, 1, <<>>)
    /\ steps' = 0
    /\ commits' = <<>>
    /\ UNCHANGED <<translate_args, compiled, verdict, path_vars, thread_vars>>

\* the matcher is at an item of the given kinds
At(kinds) ==
    /\ stage = "running"
    /\ item <= Len(compiled)
    /\ compiled[item].kind \in kinds

\* the character at the cursor is in the class
Here(class) == cursor <= Len(string) /\ InClass(class, string[cursor])

\* X: one character of the class
StepOne ==
    /\ At({"one"})
    /\ IF Here(compiled[item].class)
       THEN Goto(item + 1, cursor + 1, stack) /\ UNCHANGED <<stage, verdict>>
       ELSE Fail
    /\ steps' = steps + 1
    /\ UNCHANGED <<translate_args, compiled, string, commits, path_vars, thread_vars>>

\* X*: one more character of the class, the choice of none kept to go
\* back to
StepStar ==
    /\ At({"star"})
    /\ IF Here(compiled[item].class)
       THEN /\ cursor' = cursor + 1
            /\ stack' = Append(stack, [item |-> item + 1, cursor |-> cursor,
                                        scan |-> FALSE])
            /\ UNCHANGED <<item, within, group>>
       ELSE Goto(item + 1, cursor, stack)
    /\ steps' = steps + 1
    /\ UNCHANGED <<stage, verdict, translate_args, compiled, string, commits,
                   path_vars, thread_vars>>

\* .*? of (?>.*?fixed): fixed is attempted here, the choice of one more
\* character kept to go back to
StepScan ==
    /\ At({"atomic"})
    /\ within = 0
    /\ within' = 1
    /\ stack' = IF cursor <= Len(string)
                THEN Append(stack, [item |-> item, cursor |-> cursor + 1,
                                    scan |-> TRUE])
                ELSE stack
    /\ steps' = steps + 1
    /\ UNCHANGED <<item, cursor, group, stage, verdict, translate_args, compiled,
                   string, commits, path_vars, thread_vars>>

\* fixed of (?>.*?fixed), one class at a time: after the last one the
\* item is left and the choice points made in it are dropped
StepFixed ==
    /\ At({"atomic"})
    /\ within >= 1
    /\ IF Here(compiled[item].fixed[within])
       THEN IF within = Len(compiled[item].fixed)
            THEN /\ Goto(item + 1, cursor + 1, SubSeq(stack, 1, group.depth))
                 /\ commits' = Append(commits, [item |-> item, from |-> group.from,
                                                to |-> cursor + 1])
                 /\ UNCHANGED <<stage, verdict>>
            ELSE /\ within' = within + 1
                 /\ cursor' = cursor + 1
                 /\ UNCHANGED <<item, stack, group, commits, stage, verdict>>
       ELSE Fail /\ UNCHANGED commits
    /\ steps' = steps + 1
    /\ UNCHANGED <<translate_args, compiled, string, path_vars, thread_vars>>

\* \Z: the string matches when the cursor is at its end
StepEnd ==
    /\ stage = "running"
    /\ item = Len(compiled) + 1
    /\ IF cursor = Len(string) + 1
       THEN /\ stage' = "done"
            /\ verdict' = TRUE
            /\ UNCHANGED <<item, within, cursor, stack, group>>
       ELSE Fail
    /\ steps' = steps + 1
    /\ UNCHANGED <<translate_args, compiled, string, commits, path_vars, thread_vars>>

\* patterns are translated by fnmatch_.translate and matched, one step
\* of the matcher at a time
NextFnmatch ==
    \/ \E pat \in FnmatchPatterns : FnmatchTranslate(pat)
    \/ \E text \in FnmatchStrings : Start(text)
    \/ StepOne
    \/ StepStar
    \/ StepScan
    \/ StepFixed
    \/ StepEnd
    \/ Forget

SpecFnmatch == Init /\ [][NextFnmatch]_vars

(***************************************************************************)
(* Properties.                                                             *)
(***************************************************************************)
\* drive + root + sep.join(tail) of an outcome
Rebuilt(sep, r) == r.drive \o r.root \o join(sep, r.tail)

\* C1: for every string s, PurePosixPath._parse_path(s) returns drive ''
\* and drive + root + '/'.join(tail) = s: nothing is collapsed or dropped
C1_PosixParseRoundTrip ==
    (op = "_parse_path" /\ cls \in PosixClasses) =>
        /\ ret.exc = "None"
        /\ ret.drive = <<>>
        /\ Rebuilt(SLASH, ret) = args[1]

\* a rooted string with a run of separators and a trailing separator was parsed
C1_Witness ==
    /\ op = "_parse_path" /\ cls = PurePosixPath
    /\ ret.root = <<SLASH>>
    /\ Len(ret.tail) >= 4
    /\ ret.tail[1] = <<>>
    /\ ret.tail[Len(ret.tail)] = <<>>

\* C2: for every string s PureWindowsPath._parse_path accepts,
\* drive + root + '\\'.join(tail) is s with every '/' replaced by '\\'
C2_WindowsParseRoundTrip ==
    (op = "_parse_path" /\ cls = PureWindowsPath /\ ret.exc = "None") =>
        Rebuilt(BACKSLASH, ret) = replace(args[1], SLASH, BACKSLASH)

\* the path was built from the one string args[1] and str() was called on it
StrOfOneString ==
    /\ held /\ op = "__new__" /\ cls \in PosixClasses
    /\ Len(args) = 1
    /\ "_str" \in self.attrs

C4_EmptyString ==
    (op = "_parse_path" /\ args[1] = <<>>) => ret = Parsed(<<>>, <<>>, <<>>)

RECURSIVE LeadingSeparators(_)
\* how many '/' the string starts with
LeadingSeparators(s) ==
    IF s # <<>> /\ s[1] = SLASH THEN 1 + LeadingSeparators(Tail(s)) ELSE 0

\* C5: PurePosixPath parsing sets root to '//' exactly when the input
\* starts with two separators not followed by a third, to '/' when it
\* starts with one or with three or more, to '' otherwise; drive is '' and
\* tail is the text after the root split on '/', empty for an empty text
C5_PosixRoot ==
    (op = "_parse_path" /\ cls = PurePosixPath) =>
        LET n == LeadingSeparators(args[1])
            root == IF n = 2 THEN <<SLASH, SLASH>>
                    ELSE IF n >= 1 THEN <<SLASH>> ELSE <<>>
            rest == SubSeq(args[1], Len(root) + 1, Len(args[1]))
        IN ret = Parsed(<<>>, root,
                        IF rest = <<>> THEN <<>> ELSE split(rest, SLASH))

\* a string with the double root and a tail was parsed
C5_Witness ==
    /\ op = "_parse_path" /\ cls = PurePosixPath
    /\ ret.root = <<SLASH, SLASH>>
    /\ Len(ret.tail) >= 2

\* the text is a UNC path in the \\?\UNC\ form, in the plain form
IsNtUnc(p) == Slice(p, 0, 8) = <<BACKSLASH, BACKSLASH, QMARK, BACKSLASH>> \o UNC_SEP
IsPlainUnc(p) ==
    /\ Slice(p, 0, 2) = <<BACKSLASH, BACKSLASH>>
    /\ ~(Slice(p, 2, 3) \in {<<QMARK>>, <<DOT>>} /\ Slice(p, 3, 4) = <<BACKSLASH>>)

\* C6: Windows parsing of a UNC path, plain or \\?\UNC\, raises the
\* invalid-drive error whenever a tail follows and the server or the share
\* is missing or empty; when both are present the drive is the prefix,
\* the server, the separator and the share, and root is the separator
\* exactly when something follows the share
C6_UncDrive ==
    LET p == replace(args[1], SLASH, BACKSLASH)
        prefix == IF IsNtUnc(p) THEN Slice(p, 0, 8) ELSE Slice(p, 0, 2)
        comps == split(SliceFrom(p, Len(prefix)), BACKSLASH)
        server == comps[1]
        share == IF Len(comps) >= 2 THEN comps[2] ELSE <<>>
        follows == Len(comps) >= 3
    IN (op = "_parse_path" /\ cls = PureWindowsPath /\ (IsNtUnc(p) \/ IsPlainUnc(p))) =>
           /\ (follows /\ (server = <<>> \/ share = <<>>)) => ret.exc = "ValueError"
           /\ (server # <<>> /\ share # <<>>) =>
                  /\ ret.exc = "None"
                  /\ ret.drive = prefix \o server \o <<BACKSLASH>> \o share
                  /\ ret.root = IF follows THEN <<BACKSLASH>> ELSE <<>>
                  /\ ret.tail = SubSeq(comps, 3, Len(comps))

\* a \\?\UNC\server\share path with a tail was parsed
C6_Witness ==
    /\ op = "_parse_path" /\ cls = PureWindowsPath
    /\ IsNtUnc(args[1])
    /\ ret.exc = "None"
    /\ ret.root = <<BACKSLASH>>
    /\ Len(ret.tail) >= 1 /\ ret.tail[1] # <<>>

\* the path is in the WinNT namespace (drive \\? and a root), for which
\* the forbidden set is empty
InWinNTNamespace(c, p) ==
    /\ c = PureWindowsPath
    /\ p.drive = <<BACKSLASH, BACKSLASH, QMARK>>
    /\ p.root = <<BACKSLASH>>

\* C7: every path value produced has no tail segment containing the
\* separator or a character of the syntax's forbidden set, and on Windows
\* no tail segment ending in a space or a dot
C7_TailSegmentsValid ==
    held =>
        \A i \in 1..Len(self.tail) :
            /\ SEPARATOR(cls) \notin CharsOf(self.tail[i])
            /\ InWinNTNamespace(cls, self)
                  \/ CharsOf(self.tail[i]) \cap INVALID_PATH_CHARS_Init(cls) = {}
            /\ cls = PureWindowsPath =>
                   LastChar(self.tail[i]) \notin {<<SPACE>>, <<DOT>>}

\* C8: the outcome of PureWindowsPath(s) depends on s alone, whatever was
\* constructed before, and parsing never changes the forbidden set
C8_ParsingStateless ==
    /\ INVALID_PATH_CHARS = [c \in Classes |-> INVALID_PATH_CHARS_Init(c)]
    /\ (op = "__new__" /\ cls = PureWindowsPath) =>
           ret = BasePurePath_new(cls, [c \in Classes |-> INVALID_PATH_CHARS_Init(c)], args)

\* C9: a Windows path that starts with \\?\ and is neither the \\?\UNC\
\* nor the \\?\X:\ form is accepted whatever its tail segments contain,
\* with drive its first three characters and root the separator
C9_WinNTAccepted ==
    LET p == replace(join(BACKSLASH, args), SLASH, BACKSLASH)
    IN (/\ op = "__new__" /\ cls = PureWindowsPath
        /\ Slice(p, 0, 4) = <<BACKSLASH, BACKSLASH, QMARK, BACKSLASH>>
        /\ Slice(p, 4, 8) # UNC_SEP
        /\ ~(Slice(p, 5, 6) = <<COLON>> /\ Slice(p, 6, 7) = <<BACKSLASH>>)) =>
           /\ ret.exc = "None"
           /\ ret.drive = Slice(p, 0, 3)
           /\ ret.root = <<BACKSLASH>>

\* C10: name = pure_stem + ''.join(suffixes) = stem + suffix, and suffix is
\* the last of suffixes, '' when there is none
C10_NameDecomposition ==
    (held /\ "name" \in self.attrs) =>
        /\ self.name = self.pure_stem \o concat(self.suffixes)
        /\ self.name = self.stem \o self.suffix
        /\ self.suffix = IF self.suffixes = <<>> THEN <<>>
                         ELSE self.suffixes[Len(self.suffixes)]

\* the name attributes of a name with repeated dots were resolved
C10_Witness ==
    /\ held /\ "name" \in self.attrs
    /\ Len(self.suffixes) >= 2
    /\ self.suffixes[1] = <<DOT>>

\* how many dots the text starts with
LeadingDots(s) == Cardinality({i \in 1..Len(s) : \A j \in 1..i : s[j] = DOT})

\* the text following the first character has no dot
NoDotAfterFirst(s) == \A i \in 2..Len(s) : s[i] # DOT

\* C11: name is the last raw tail segment, '' when the tail is empty.  If
\* the name is empty, made of dots only or ended by '.', suffixes is empty,
\* suffix is '' and stem = pure_stem = name.  Otherwise the name is its
\* leading dots, a first piece without a dot, then the suffixes, each of
\* them a '.' and a piece without a dot: the pieces the name without its
\* leading dots splits into on '.'
C11_NameParsing ==
    (held /\ "name" \in self.attrs) =>
        /\ self.name = IF self.tail = <<>> THEN <<>> ELSE self.tail[Len(self.tail)]
        /\ IF \/ self.name = <<>>
              \/ LeadingDots(self.name) = Len(self.name)
              \/ self.name[Len(self.name)] = DOT
           THEN /\ self.suffixes = <<>>
                /\ self.suffix = <<>>
                /\ self.stem = self.name
                /\ self.pure_stem = self.name
           ELSE /\ self.name = self.pure_stem \o concat(self.suffixes)
                /\ Len(self.pure_stem) > LeadingDots(self.name)
                /\ LeadingDots(self.pure_stem) = LeadingDots(self.name)
                /\ \A i \in (LeadingDots(self.name) + 1)..Len(self.pure_stem) :
                       self.pure_stem[i] # DOT
                /\ \A i \in 1..Len(self.suffixes) :
                       /\ self.suffixes[i] # <<>>
                       /\ self.suffixes[i][1] = DOT
                       /\ NoDotAfterFirst(self.suffixes[i])

\* the name attributes of a name with a leading dot and suffixes were resolved
C11_Witness ==
    /\ held /\ "name" \in self.attrs
    /\ self.name # <<>> /\ self.name[1] = DOT
    /\ self.suffixes # <<>>
    /\ self.pure_stem = <<DOT, "a">>

\* the argument of joinpath is a path string with a drive or a root
Anchored(c, path) ==
    LET parsed == parse_path(c, path)
    IN parsed.exc = "None" /\ parsed.drive \o parsed.root # <<>>

\* the argument of joinpath is one the class makes a path of
Converts(c, invalid, path) == BasePurePath_new(c, invalid, <<path>>).exc = "None"

\* the tail segments of the arguments, in argument order
TailsOf(c, pathsegments) ==
    concat([i \in 1..Len(pathsegments) |-> parse_path(c, pathsegments[i]).tail])

\* C12: in strict mode joinpath called with an argument that has a
\* non-empty anchor, at whatever position, raises ValueError
C12_AnchoredJoinRaises ==
    (/\ op = "joinpath" /\ ~JOINPATH_INSANE_BEHAVIOR
     /\ \E i \in 1..Len(args) : Anchored(cls, args[i])) =>
        ret.exc = "ValueError"

\* C13: in strict mode joinpath with unanchored arguments, or none, returns
\* the receiver's drive and root with the receiver's tail followed by the
\* tail segments of the arguments, and p / x returns what p.joinpath(x) does
C13_JoinAppends ==
    (/\ op \in {"joinpath", "__truediv__"} /\ ~JOINPATH_INSANE_BEHAVIOR
     /\ \A i \in 1..Len(args) :
            /\ Converts(cls, INVALID_PATH_CHARS, args[i])
            /\ ~Anchored(cls, args[i])) =>
        ret = Parsed(recv.drive, recv.root, recv.tail \o TailsOf(cls, args))

\* C14: in legacy mode joinpath returns the path made of the last anchored
\* argument and the arguments after it, and with unanchored arguments only
\* the receiver with their tail segments appended
C14_LegacyJoin ==
    (/\ op = "joinpath" /\ JOINPATH_INSANE_BEHAVIOR
     /\ \A i \in 1..Len(args) : Converts(cls, INVALID_PATH_CHARS, args[i])) =>
        LET anchored == {i \in 1..Len(args) : Anchored(cls, args[i])}
            last == CHOOSE i \in anchored : \A j \in anchored : j <= i
        IN IF anchored = {}
           THEN ret = Parsed(recv.drive, recv.root, recv.tail \o TailsOf(cls, args))
           ELSE ret = BasePurePath_new(cls, INVALID_PATH_CHARS,
                                       SubSeq(args, last, Len(args)))

\* the five methods that replace the name or a part of it
WITH_METHODS == {"with_name", "with_stem", "with_suffix", "with_pure_stem", "with_suffixes"}

\* the path has no name: no tail, or an empty last tail segment
Nameless(p) == p.tail = <<>> \/ p.tail[Len(p.tail)] = <<>>

Front(p) == SubSeq(p.tail, 1, Len(p.tail) - 1)

\* C16: with_name(n) on a path that has a name rejects every n that is empty
\* or contains the separator, and for every other n the class admits
\* returns the receiver's drive, root and tail with the last segment n
C16_WithNameRejects ==
    (op = "with_name" /\ ~Nameless(recv)) =>
        /\ (args[1] = <<>> \/ SEPARATOR(cls) \in CharsOf(args[1])) => ret.exc # "None"
        /\ (/\ args[1] # <<>>
            /\ ~validate_tail_parts_raises(cls, INVALID_PATH_CHARS, <<args[1]>>)) =>
               ret = Parsed(recv.drive, recv.root, Front(recv) \o <<args[1]>>)

\* with_name was called with the name of the receiver
WithOwnName ==
    /\ op = "with_name"
    /\ args[1] = IF recv.tail = <<>> THEN <<>> ELSE recv.tail[Len(recv.tail)]

C18_WithNameOnEmptyTail ==
    (op = "with_name") =>
        /\ (/\ recv.tail = <<>>
            /\ args[1] # <<>>
            /\ ~validate_tail_parts_raises(cls, INVALID_PATH_CHARS, <<args[1]>>)) =>
               ret = Parsed(recv.drive, recv.root, <<args[1]>>)
        /\ (~Nameless(recv) /\ args[1] = <<>>) =>
               ret = Parsed(recv.drive, recv.root, Front(recv) \o <<<<>>>>)

\* the path of the anchor of p alone: the empty path when p has none
AnchorOnly(p) == Parsed(p.drive, p.root, <<>>)

\* C19: .parent applied again and again from a path p is, after exactly
\* len(p's raw tail) applications and not before, the path of p's anchor
\* alone (the empty path when p has none), and every further application
\* returns a value equal to it, for POSIX and Windows paths alike
C19_ParentReachesAnchor ==
    (op = "parent") =>
        /\ ret.exc = "None"
        /\ IF walked < Len(origin.tail)
           THEN /\ ret.drive = origin.drive /\ ret.root = origin.root
                /\ Len(ret.tail) = Len(origin.tail) - walked
           ELSE PathEq(ret, AnchorOnly(origin))
        /\ walked > Len(origin.tail) => PathEq(ret, recv)

\* C20: p.parents is a list of len(tail) paths: element i has p's drive and
\* root and the first len(tail)-1-i tail segments, the last one being the
\* anchor alone or the empty path; an index from -len to len-1 reads the
\* element, counting from the end when negative, any other raises
\* IndexError; p.parent is element 0, or p itself when the tail is empty
C20_Parents ==
    /\ (op = "parents") =>
           LET n == Len(recv.tail)
           IN /\ Len(parents) = n
              /\ \A i \in 0..(n - 1) :
                     parents[i + 1] =
                         Parsed(recv.drive, recv.root, SubSeq(recv.tail, 1, n - 1 - i))
              /\ IF index >= 0 /\ index < n THEN ret = parents[index + 1]
                 ELSE IF index < 0 /\ index >= 0 - n THEN ret = parents[n + index + 1]
                 ELSE ret.exc = "IndexError"
    /\ (op = "parent") =>
           ret = IF recv.tail = <<>>
                 THEN Parsed(recv.drive, recv.root, recv.tail)
                 ELSE ParentsList(cls, INVALID_PATH_CHARS, recv)[1]

\* with_suffix was called on a path that has a name and returned a path
WithSuffixReturned ==
    /\ op = "with_suffix"
    /\ ~Nameless(recv)
    /\ ret.exc = "None"

\* C30 as stated: for every path p with a name and every non-empty suffix s
\* that with_suffix accepts, r = p.with_suffix(s) has r.suffix = s and
\* r.stem = p.stem; and p.with_suffix('') has the name p.stem
C30_WithSuffix ==
    WithSuffixReturned =>
        IF args[1] # <<>>
        THEN /\ BasePurePath_parse_name(ret).suffix = args[1]
             /\ BasePurePath_parse_name(ret).stem = BasePurePath_parse_name(recv).stem
        ELSE BasePurePath_parse_name(ret).name = BasePurePath_parse_name(recv).stem

\* C30 as amended: the same for the suffixes made of one dot followed by
\* characters none of which is a dot, on a path whose name is not made of
\* dots only; and p.with_suffix('') has the name p.stem whenever it returns
C30_WithOneSuffix ==
    WithSuffixReturned =>
        IF args[1] # <<>>
        THEN (/\ NoDotAfterFirst(args[1])
              /\ LeadingDots(BasePurePath_parse_name(recv).name)
                     < Len(BasePurePath_parse_name(recv).name)) =>
                 /\ BasePurePath_parse_name(ret).suffix = args[1]
                 /\ BasePurePath_parse_name(ret).stem = BasePurePath_parse_name(recv).stem
        ELSE BasePurePath_parse_name(ret).name = BasePurePath_parse_name(recv).stem

\* with_suffix replaced the suffix of a name that had two
C30_Witness ==
    /\ WithSuffixReturned
    /\ args[1] = <<DOT, "x">>
    /\ Len(BasePurePath_parse_name(recv).suffixes) = 2
    /\ BasePurePath_parse_name(ret).suffix = <<DOT, "x">>

\* C21: the list p.parents cannot be modified: assigning to an element of
\* it raises TypeError, and after the assignment p.parents still holds the
\* values first computed for p
C21_ParentsImmutable ==
    (op = "parents.__setitem__") =>
        /\ ret.exc = "TypeError"
        /\ parents = BasePurePath_get_parents(cls, INVALID_PATH_CHARS, recv).parents

\* the list s starts with the list t
StartsWith(s, t) == Len(t) <= Len(s) /\ SubSeq(s, 1, Len(t)) = t

\* q, the path other is converted to, has the anchor of p and a raw tail
\* the raw tail of p starts with
Under(p, q) == anchor(q) = anchor(p) /\ StartsWith(p.tail, q.tail)

\* C22: p.is_relative_to(q) is true exactly when q has the anchor of p and
\* q's raw tail is a prefix of p's raw tail
C22_IsRelativeTo ==
    (op = "is_relative_to") =>
        LET q == BasePurePath_convert_path(cls, INVALID_PATH_CHARS, args[1])
        IN q.exc = "None" =>
               /\ ret.exc = "None"
               /\ answer = Under(recv, q)

\* C23: p.relative_to(q) raises ValueError when q's anchor is not p's or
\* q's tail is not a prefix of p's tail, and returns otherwise the path
\* without drive and root whose tail is p's tail after q's
C23_RelativeTo ==
    (op = "relative_to" /\ kwargs = {}) =>
        LET q == BasePurePath_convert_path(cls, INVALID_PATH_CHARS, args[1])
        IN q.exc = "None" =>
               IF Under(recv, q)
               THEN /\ ret.exc = "None"
                    /\ ret.drive = <<>> /\ ret.root = <<>>
                    /\ q.tail \o ret.tail = recv.tail
               ELSE ret.exc = "ValueError"

\* how many leading elements the lists s and t share
CommonPrefix(s, t) ==
    Cardinality({n \in 1..Min(Len(s), Len(t)) : SubSeq(s, 1, n) = SubSeq(t, 1, n)})

\* the path has a '..' segment, or a '.' one
HasDotDot(p) == \E i \in 1..Len(p.tail) : p.tail[i] = <<DOT, DOT>>
HasDot(p) == \E i \in 1..Len(p.tail) : p.tail[i] = <<DOT>>

\* C24: p.relative_to(q, walk_up=True), for p and q with the same anchor
\* and no '.' or '..' segment, returns the path without drive and root made
\* of one '..' for each tail segment of q after the longest common prefix of
\* the two tails, then p's tail segments after that prefix; it raises
\* ValueError when the anchors differ or a path has a '..' segment
C24_RelativeToWalkUp ==
    (op = "relative_to" /\ kwargs = {"walk_up"}) =>
        LET q == BasePurePath_convert_path(cls, INVALID_PATH_CHARS, args[1])
            n == CommonPrefix(recv.tail, q.tail)
        IN q.exc = "None" =>
               IF anchor(q) # anchor(recv) \/ HasDotDot(recv) \/ HasDotDot(q)
               THEN ret.exc = "ValueError"
               ELSE (~HasDot(recv) /\ ~HasDot(q)) =>
                        ret = Parsed(<<>>, <<>>,
                                     [i \in 1..(Len(q.tail) - n) |-> <<DOT, DOT>>]
                                         \o SliceFrom(recv.tail, n))

\* the segment is one the pattern segment matches: '*' stands for any text
\* of one character or more, any other pattern segment of Patterns for
\* itself
SegmentMatches(segment, pattern) ==
    IF pattern = <<"*">> THEN segment # <<>> ELSE segment = pattern

\* the pattern, parsed as a path of the class, matches the path from the
\* right: segment by segment over the last segments of the path, and over
\* the whole of the path, anchor included, when the pattern has a root
MatchesFromTheRight(c, p, pattern) ==
    LET pat == parse_path(c, pattern)
        k == Len(p.tail) - Len(pat.tail)
    IN /\ k >= 0
       /\ \A i \in 1..Len(pat.tail) : SegmentMatches(p.tail[k + i], pat.tail[i])
       /\ pat.root # <<>> => (k = 0 /\ anchor(p) = anchor(pat))

\* C25: match(pattern) returns a truth value, which is whether the pattern
\* matches the path from the right
C25_Match ==
    (op = "match") =>
        /\ ret.exc = "None"
        /\ answer = MatchesFromTheRight(cls, recv, args[1])

\* C29: for every path p, cls(p) has the drive, the root and the raw tail
\* of p and is equal to p
C29_NewPath ==
    (op = "__new__path") =>
        /\ ret = Parsed(recv.drive, recv.root, recv.tail)
        /\ PathEq(ret, recv)

RECURSIVE Replaced(_)
\* pat.replace('**', '*')
Replaced(pat) ==
    IF pat = <<>> THEN <<>>
    ELSE IF Len(pat) >= 2 /\ pat[1] = "*" /\ pat[2] = "*"
    THEN <<"*">> \o Replaced(SubSeq(pat, 3, Len(pat)))
    ELSE <<Head(pat)>> \o Replaced(Tail(pat))

\* a pattern containing '**' was translated with recursive matching
\* disabled and the outcome matched against a string
StarStarMatched ==
    /\ stage = "done"
    /\ ~translate_args.recursive
    /\ \E j \in 1..(Len(translate_args.pat) - 1) :
           translate_args.pat[j] = "*" /\ translate_args.pat[j + 1] = "*"

\* whether the string matches the translation, under the same
\* include_hidden and seps, of the pattern with each '**' replaced by '*'
ReplacedVerdict ==
    re_match(glob_translate(Replaced(translate_args.pat), FALSE,
                            translate_args.include_hidden, translate_args.seps),
             string)

\* no segment of the string is empty
NoEmptySegment ==
    LET segments == re_split(translate_args.seps, string)
    IN \A j \in 1..Len(segments) : segments[j] # <<>>

RECURSIVE Squashed(_)
\* the pattern with every run of consecutive '*' made one '*'
Squashed(pat) ==
    IF Len(pat) < 2 THEN pat
    ELSE IF pat[1] = "*" /\ pat[2] = "*" THEN Squashed(Tail(pat))
    ELSE <<Head(pat)>> \o Squashed(Tail(pat))

\* the '*' of a pattern that are followed by text other than '*' and then
\* by another '*'
InteriorStars(pat) ==
    {j \in 1..(Len(pat) - 1) :
        /\ pat[j] = "*"
        /\ pat[j + 1] # "*"
        /\ \E l \in (j + 2)..Len(pat) : pat[l] = "*"}

\* the items (?>.*?fixed) of a regular expression
AtomicItems(regex) == {n \in 1..Len(regex) : regex[n].kind = "atomic"}

\* how many steps one position of the string can take: one for each
\* class and each .*? of the regular expression, and one for \Z
Cost(regex) ==
    LET RECURSIVE Sum(_)
        Sum(n) == IF n = 0 THEN 1
                  ELSE Sum(n - 1) + (IF regex[n].kind = "atomic"
                                     THEN 1 + Len(regex[n].fixed)
                                     ELSE 1)
    IN Sum(Len(regex))

\* the matcher made no more steps than linear in the length of the string
LinearSteps ==
    stage \in {"running", "done"} =>
        steps <= Cost(compiled) * (Len(string) + 1)

====
